---------------------------- MODULE Spec2Model ----------------------------
(***************************************************************************)
(* Alignment and localization engine of the point-cloud viewer (main.js,   *)
(* kept as src/unnamed/part_006): point-cloud normalization, camera-pose   *)
(* decoding, trajectory transformation, depth-based label localization and *)
(* the camera index (display selection, click resolution, neighbour        *)
(* frames).                                                                *)
(*                                                                         *)
(* Numbers.  JavaScript doubles are modelled by exact rationals <<n, d>>   *)
(* in lowest terms with d >= 0.  d = 0 encodes the non-finite doubles:     *)
(* <<1,0>> is +Infinity, <<-1,0>> is -Infinity and <<0,0>> is NaN, so that *)
(* 4 / 0, 0 * Infinity and comparisons against NaN behave as in the code.  *)
(* Rounding error of doubles is not modelled.                              *)
(***************************************************************************)
EXTENDS Integers, Sequences, FiniteSets, TLC

VARIABLES
    input,                \* the file / arguments handed to the operation under study
    output,               \* the value an operation returned (pure-function specifications)
    pointCloudTransform,  \* part_006:208  { center, scale, bounds } or None
    trajectoryData,       \* part_006:207  aligned poses or None
    scanFolderPath,       \* part_006:209
    trajectoryVisible,    \* part_006:203
    trajectoryTube,       \* part_006:205  TRUE when the tube mesh exists
    cameraFrustums,       \* part_006:206  TRUE when the camera group exists
    cameraBodyInstances,  \* part_006:230
    cameraLensInstances,  \* part_006:231
    renderPosesMapping,   \* part_006:232  handle -> trajectory index
    selectedCameraIndex,  \* part_006:229
    bestViewFrameIds,     \* part_006:216
    frameViewer,          \* the frame viewer overlay: frames shown, hidden flag
    trajectoryLoading,    \* loadAndProcessTrajectory calls suspended at their await
    labelData,            \* part_006:213  { labeled_objects } or None
    labelBatches,         \* loadLabelsDataWithWebappCalculation calls suspended at an await
    labelsReport,         \* the counts logged and the value returned by the last finished call
    labelsResult,         \* the value the last settled label batch call returned
    trajectoryResult,     \* how the last settled loadAndProcessTrajectory call ended
    plyLoading,           \* loadPLYFile calls whose FileReader has not fired onload
    labelsVisible,        \* part_006:212
    labelSprites          \* part_006:214  one sprite for each rendered label

vars == <<input, output, pointCloudTransform, trajectoryData, scanFolderPath,
          trajectoryVisible, trajectoryTube, cameraFrustums, cameraBodyInstances,
          cameraLensInstances, renderPosesMapping, selectedCameraIndex,
          bestViewFrameIds, frameViewer, trajectoryLoading, labelData,
          labelBatches, labelsReport, labelsResult, trajectoryResult, plyLoading,
          labelsVisible, labelSprites>>

\* the number of label batches in flight
labelsLoading == Len(labelBatches)

\* null / undefined: a nullable value is kept as a sequence of at most one element
None == <<>>
Some(x) == <<x>>
Val(o) == o[1]

-----------------------------------------------------------------------------
(* Bounds of the model *)

MaxCoord == 2      \* raw point-cloud x coordinates range over 0..MaxCoord
MaxPoints == 3     \* points per cloud in the normalizer specification
MaxPoses == 3      \* pose records per trajectory file
MaxTrans == 1      \* pose translation entries range over -1..MaxTrans
MaxFrames == 10    \* poses of the longest trajectory of the camera-index specification
MaxInFlight == 1   \* suspended loads of one kind at a time

-----------------------------------------------------------------------------
(* Doubles as extended rationals *)

Abs(x) == IF x < 0 THEN -x ELSE x

Sgn(x) == IF x < 0 THEN -1 ELSE IF x > 0 THEN 1 ELSE 0

RECURSIVE GCD(_, _)
GCD(a, b) == IF b = 0 THEN a ELSE GCD(b, a % b)

RNorm(n, d) ==
    IF d = 0 THEN <<Sgn(n), 0>>
    ELSE LET g == GCD(Abs(n), Abs(d))
             s == IF d < 0 THEN -1 ELSE 1
         IN  <<(s * n) \div g, (s * d) \div g>>

R(i) == <<i, 1>>
NaN == <<0, 0>>
PosInf == <<1, 0>>
NegInf == <<-1, 0>>
IsNaN(a) == a = NaN
IsFinite(a) == a[2] # 0

\* operands are in lowest terms; common factors are cancelled before
\* multiplying so that intermediate integers stay small
RAdd(a, b) ==
    IF a[2] = 0 /\ b[2] = 0
    THEN (IF a = b THEN a ELSE NaN)
    ELSE IF a[2] = 0 THEN a
    ELSE IF b[2] = 0 THEN b
    ELSE LET g == GCD(a[2], b[2])
         IN  RNorm(a[1] * (b[2] \div g) + b[1] * (a[2] \div g), (a[2] \div g) * b[2])

RNeg(a) == <<-a[1], a[2]>>
RSub(a, b) == RAdd(a, RNeg(b))
RMul(a, b) ==
    IF a[2] = 0 \/ b[2] = 0 THEN <<Sgn(a[1]) * Sgn(b[1]), 0>>
    ELSE LET g1 == GCD(Abs(a[1]), b[2])
             g2 == GCD(Abs(b[1]), a[2])
         IN  RNorm((a[1] \div g1) * (b[1] \div g2), (a[2] \div g2) * (b[2] \div g1))
RInv(a) == RNorm(a[2], a[1])
RDiv(a, b) == RMul(a, RInv(b))

\* a < b, false whenever an operand is NaN
RLt(a, b) ==
    /\ ~IsNaN(a)
    /\ ~IsNaN(b)
    /\ IF a[2] = 0 /\ b[2] = 0 THEN a[1] < b[1] ELSE a[1] * b[2] < b[1] * a[2]

RGt(a, b) == RLt(b, a)
RLe(a, b) == ~IsNaN(a) /\ ~IsNaN(b) /\ ~RLt(b, a)

\* Math.min / Math.max: NaN if an operand is NaN
RMin(a, b) == IF IsNaN(a) \/ IsNaN(b) THEN NaN ELSE IF RLt(b, a) THEN b ELSE a
RMax(a, b) == IF IsNaN(a) \/ IsNaN(b) THEN NaN ELSE IF RLt(a, b) THEN b ELSE a

RECURSIVE RMinSeq(_)
RMinSeq(s) == IF Len(s) = 1 THEN s[1] ELSE RMin(s[1], RMinSeq(Tail(s)))

RECURSIVE RMaxSeq(_)
RMaxSeq(s) == IF Len(s) = 1 THEN s[1] ELSE RMax(s[1], RMaxSeq(Tail(s)))

RFloor(a) == a[1] \div a[2]

-----------------------------------------------------------------------------
(* THREE.Vector3 *)

V3(x, y, z) == <<R(x), R(y), R(z)>>
VSub(a, b) == <<RSub(a[1], b[1]), RSub(a[2], b[2]), RSub(a[3], b[3])>>
VAdd(a, b) == <<RAdd(a[1], b[1]), RAdd(a[2], b[2]), RAdd(a[3], b[3])>>
VScale(a, s) == <<RMul(a[1], s), RMul(a[2], s), RMul(a[3], s)>>
VLenSq(a) == RAdd(RMul(a[1], a[1]), RAdd(RMul(a[2], a[2]), RMul(a[3], a[3])))

\* mean of a non-empty sequence of vectors
RECURSIVE VSum(_)
VSum(s) == IF Len(s) = 0 THEN V3(0, 0, 0) ELSE VAdd(s[1], VSum(Tail(s)))

VMean(s) == VScale(VSum(s), RInv(R(Len(s))))

\* geometry.computeBoundingBox(): componentwise min and max of the positions
BoundingBox(positions) ==
    [min |-> [k \in 1..3 |-> RMinSeq([i \in 1..Len(positions) |-> positions[i][k]])],
     max |-> [k \in 1..3 |-> RMaxSeq([i \in 1..Len(positions) |-> positions[i][k]])]]

BoxSize(box) == VSub(box.max, box.min)

-----------------------------------------------------------------------------
(* Point Cloud Normalizer: reader.onload of loadPLYFile *)

TargetSize == 4

\* the centre the normalizer subtracts: geometry.boundingBox.getCenter(center)
CloudCenterMean(positions) == VMean(positions)

CloudCenter(positions) ==
    LET box == BoundingBox(positions)
    IN  VScale(VAdd(box.min, box.max), <<1, 2>>)

\* const scale = 4 / maxDim
CloudScaleHalf(maxDim) == RDiv(R(2), maxDim)

CloudScale(maxDim) == RDiv(R(TargetSize), maxDim)

\* points: the parsed PLY positions, a non-empty sequence of integer triples
NormalizeCloud(points) ==
    LET raw == [i \in 1..Len(points) |-> V3(points[i][1], points[i][2], points[i][3])]
        center == CloudCenter(raw)
        centered == [i \in 1..Len(raw) |-> VSub(raw[i], center)]
        size == BoxSize(BoundingBox(centered))
        maxDim == RMax(size[1], RMax(size[2], size[3]))
        scale == CloudScale(maxDim)
        scaled == [i \in 1..Len(raw) |-> VScale(centered[i], scale)]
    IN  [center |-> center, scale |-> scale, bounds |-> BoundingBox(scaled)]

-----------------------------------------------------------------------------
(* Camera pose decoding: buildMatrixFromPoseArray and matrix.decompose *)

\* A THREE.Matrix4 is kept as its four logical rows (the argument order of
\* Matrix4.set); its entries are the integers of the pose array.
Identity4 == <<<<1, 0, 0, 0>>, <<0, 1, 0, 0>>, <<0, 0, 1, 0>>, <<0, 0, 0, 1>>>>

Transpose4(m) == [i \in 1..4 |-> [j \in 1..4 |-> m[j][i]]]

\* the two flattenings of a matrix into a 16-element pose array
RowMajor(m) == [k \in 1..16 |-> m[((k - 1) \div 4) + 1][((k - 1) % 4) + 1]]
ColMajor(m) == [k \in 1..16 |-> m[((k - 1) % 4) + 1][((k - 1) \div 4) + 1]]

\* squared Math.hypot of the two translation candidates (0-based indices
\* 3,7,11 and 12,13,14 of the array)
TRowSq(p) == p[4] * p[4] + p[8] * p[8] + p[12] * p[12]
TColSq(p) == p[13] * p[13] + p[14] * p[14] + p[15] * p[15]

SetRowMajor(p) == [i \in 1..4 |-> [j \in 1..4 |-> p[4 * (i - 1) + j]]]
SetColMajor(p) == [i \in 1..4 |-> [j \in 1..4 |-> p[4 * (j - 1) + i]]]

\* Array.isArray(poseArray) && poseArray.length === 16 (a missing array is <<>>)
IsPoseArray(p) == Len(p) = 16

BuildMatrixSmallerWins(p) ==
    IF ~IsPoseArray(p) THEN Identity4
    ELSE IF TRowSq(p) <= TColSq(p) THEN SetRowMajor(p) ELSE SetColMajor(p)

BuildMatrixAlwaysRowMajor(p) ==
    IF ~IsPoseArray(p) THEN Identity4 ELSE SetRowMajor(p)

BuildMatrixFromPoseArray(p) ==
    IF ~IsPoseArray(p) THEN Identity4
    ELSE IF TRowSq(p) >= TColSq(p) THEN SetRowMajor(p) ELSE SetColMajor(p)

\* matrix.decompose(position, quaternion, scale): the position is the
\* translation column; the quaternion is represented by the rotation block it
\* encodes (exact for the unit-scale matrices of a camera pose).
Translation(m) == <<m[1][4], m[2][4], m[3][4]>>
MatrixPosition(m) == V3(m[1][4], m[2][4], m[3][4])
MatrixRotation(m) == [i \in 1..3 |-> [j \in 1..3 |-> m[i][j]]]

IntLenSq(v) == v[1] * v[1] + v[2] * v[2] + v[3] * v[3]

\* a rigid camera pose: orthonormal rotation block of determinant 1, bottom row 0,0,0,1
Det3(b) ==
    b[1][1] * (b[2][2] * b[3][3] - b[2][3] * b[3][2])
    - b[1][2] * (b[2][1] * b[3][3] - b[2][3] * b[3][1])
    + b[1][3] * (b[2][1] * b[3][2] - b[2][2] * b[3][1])

IsRotation(b) ==
    /\ \A i, j \in 1..3 :
          b[i][1] * b[j][1] + b[i][2] * b[j][2] + b[i][3] * b[j][3]
              = (IF i = j THEN 1 ELSE 0)
    /\ Det3(b) = 1

IsRigid(m) == IsRotation(MatrixRotation(m)) /\ m[4] = <<0, 0, 0, 1>>

Compose4(b, t, bottom) ==
    <<<<b[1][1], b[1][2], b[1][3], t[1]>>,
      <<b[2][1], b[2][2], b[2][3], t[2]>>,
      <<b[3][1], b[3][2], b[3][3], t[3]>>,
      <<bottom[1], bottom[2], bottom[3], 1>>>>

-----------------------------------------------------------------------------
(* Trajectory parsing and transformation *)

\* the pose loop of loadCameraTrajectoryFromFile: a record whose array is
\* missing or not of length 16 is skipped
ValidPoseRecord(rec) == IsPoseArray(rec.cameraPoseARFrame)

ParsePoseRecord(rec) ==
    LET matrix == BuildMatrixFromPoseArray(rec.cameraPoseARFrame)
    IN  [index |-> rec.frame_index,
         position |-> MatrixPosition(matrix),
         quaternion |-> MatrixRotation(matrix),
         matrix |-> matrix]

\* a pose loop that gives up at the first record without a pose array
ParsePosesUpToInvalid(poses) ==
    LET firstBad == CHOOSE k \in 1..(Len(poses) + 1) :
                        /\ \A j \in 1..(k - 1) : ValidPoseRecord(poses[j])
                        /\ k <= Len(poses) => ~ValidPoseRecord(poses[k])
    IN  [i \in 1..(firstBad - 1) |-> ParsePoseRecord(poses[i])]

ParsePoses(poses) ==
    LET kept == SelectSeq(poses, ValidPoseRecord)
    IN  [i \in 1..Len(kept) |-> ParsePoseRecord(kept[i])]

\* scanFolderPath as loadCameraTrajectoryFromFile sets it
ScanFolderBase == "/cloud/Untitled_Scan_22_24_52/"
DefaultScanFolder == "2025_11_10_21_44_21"
ScanFolderOf(json) ==
    IF json.scan_folder # "" THEN <<ScanFolderBase, json.scan_folder>>
    ELSE <<ScanFolderBase, DefaultScanFolder>>

\* transformedPos = pose.position.clone().sub(center).multiplyScalar(scale)
TransformPosition(position, center, scale) ==
    VScale(VSub(position, center), scale)

transformTrajectoryDataResettingMatrix(cameraPoses, center, scale) ==
    [i \in 1..Len(cameraPoses) |->
        [index |-> cameraPoses[i].index,
         position |-> TransformPosition(cameraPoses[i].position, center, scale),
         quaternion |-> cameraPoses[i].quaternion,
         matrix |-> Identity4]]

transformTrajectoryData(cameraPoses, center, scale) ==
    [i \in 1..Len(cameraPoses) |->
        [index |-> cameraPoses[i].index,
         position |-> TransformPosition(cameraPoses[i].position, center, scale),
         quaternion |-> cameraPoses[i].quaternion,
         matrix |-> cameraPoses[i].matrix]]

CameraCentroid(poses) == VMean([i \in 1..Len(poses) |-> poses[i].position])

-----------------------------------------------------------------------------
(* State after construction (the module-level declarations of main.js) *)

InitProgram ==
    /\ pointCloudTransform = None
    /\ trajectoryData = None
    /\ scanFolderPath = None
    /\ trajectoryVisible = FALSE
    /\ trajectoryTube = FALSE
    /\ cameraFrustums = FALSE
    /\ cameraBodyInstances = <<>>
    /\ cameraLensInstances = <<>>
    /\ renderPosesMapping = <<>>
    /\ selectedCameraIndex = -1
    /\ bestViewFrameIds = {}
    /\ frameViewer = None
    /\ trajectoryLoading = 0
    /\ labelData = None
    /\ labelBatches = <<>>
    /\ labelsReport = None
    /\ labelsResult = None
    /\ trajectoryResult = None
    /\ plyLoading = 0
    /\ labelsVisible = FALSE
    /\ labelSprites = <<>>

programVars == <<pointCloudTransform, trajectoryData, scanFolderPath,
                 trajectoryVisible, trajectoryTube, cameraFrustums,
                 cameraBodyInstances, cameraLensInstances, renderPosesMapping,
                 selectedCameraIndex, bestViewFrameIds, frameViewer,
                 trajectoryLoading, labelData, labelBatches, labelsReport,
                 labelsResult, trajectoryResult, plyLoading, labelsVisible, labelSprites>>

indexVars == <<trajectoryVisible, trajectoryTube, cameraFrustums,
               cameraBodyInstances, cameraLensInstances, renderPosesMapping,
               selectedCameraIndex, bestViewFrameIds, frameViewer,
               trajectoryLoading, labelData, labelBatches, labelsReport,
               labelsResult, trajectoryResult, plyLoading, labelsVisible, labelSprites>>

-----------------------------------------------------------------------------
(* The globals as one record, so that a handler is a function from globals *)
(* to globals and handlers compose as the code calls them                  *)

Globals ==
    [pointCloudTransform |-> pointCloudTransform,
     trajectoryData |-> trajectoryData,
     scanFolderPath |-> scanFolderPath,
     trajectoryVisible |-> trajectoryVisible,
     trajectoryTube |-> trajectoryTube,
     cameraFrustums |-> cameraFrustums,
     cameraBodyInstances |-> cameraBodyInstances,
     cameraLensInstances |-> cameraLensInstances,
     renderPosesMapping |-> renderPosesMapping,
     selectedCameraIndex |-> selectedCameraIndex,
     bestViewFrameIds |-> bestViewFrameIds,
     frameViewer |-> frameViewer,
     trajectoryLoading |-> trajectoryLoading,
     labelData |-> labelData,
     labelBatches |-> labelBatches,
     labelsReport |-> labelsReport,
     labelsResult |-> labelsResult,
     trajectoryResult |-> trajectoryResult,
     plyLoading |-> plyLoading,
     labelsVisible |-> labelsVisible,
     labelSprites |-> labelSprites]

Become(g) ==
    /\ pointCloudTransform' = g.pointCloudTransform
    /\ trajectoryData' = g.trajectoryData
    /\ scanFolderPath' = g.scanFolderPath
    /\ trajectoryVisible' = g.trajectoryVisible
    /\ trajectoryTube' = g.trajectoryTube
    /\ cameraFrustums' = g.cameraFrustums
    /\ cameraBodyInstances' = g.cameraBodyInstances
    /\ cameraLensInstances' = g.cameraLensInstances
    /\ renderPosesMapping' = g.renderPosesMapping
    /\ selectedCameraIndex' = g.selectedCameraIndex
    /\ bestViewFrameIds' = g.bestViewFrameIds
    /\ frameViewer' = g.frameViewer
    /\ trajectoryLoading' = g.trajectoryLoading
    /\ labelData' = g.labelData
    /\ labelBatches' = g.labelBatches
    /\ labelsReport' = g.labelsReport
    /\ labelsResult' = g.labelsResult
    /\ trajectoryResult' = g.trajectoryResult
    /\ plyLoading' = g.plyLoading
    /\ labelsVisible' = g.labelsVisible
    /\ labelSprites' = g.labelSprites

-----------------------------------------------------------------------------
(* Camera index: createTrajectoryTube, createCameraFrustums,               *)
(* recreateCameraFrustums, toggleCameraTrajectory, cleanupTrajectory       *)

\* null for fewer than two poses, a mesh otherwise
createTrajectoryTube(cameraPoses) == Len(cameraPoses) >= 2

IsDisplayedEvenOnly(cameraPoses, best, trajectoryIndex) == trajectoryIndex % 2 = 0

\* isBestView || isEverySecond, for the 0-based trajectoryIndex
IsDisplayed(cameraPoses, best, trajectoryIndex) ==
    \/ cameraPoses[trajectoryIndex + 1].index \in best
    \/ trajectoryIndex % 2 = 0

\* the renderPosesMapping of the forEach over cameraPoses
RenderIndices(cameraPoses, best) ==
    SelectSeq([k \in 1..Len(cameraPoses) |-> k - 1],
              LAMBDA t : IsDisplayed(cameraPoses, best, t))

DEFAULT_CAMERA_COLOR == "4a64d2"
BEST_VIEW_CAMERA_COLOR == "ffff00"
SELECTED_CAMERA_COLOR == "00ffff"

\* isBestView ? BEST_VIEW_CAMERA_COLOR : DEFAULT_CAMERA_COLOR
BaseColor(pose, best) ==
    IF pose.index \in best THEN BEST_VIEW_CAMERA_COLOR ELSE DEFAULT_CAMERA_COLOR

\* a body or lens mesh: its userData and the colour of its material
CameraMesh(index, mapping, cameraPoses, best) ==
    [cameraIndex |-> index,
     trajectoryIndex |-> mapping[index + 1],
     color |-> BaseColor(cameraPoses[mapping[index + 1] + 1], best)]

\* cameraFrustums = createCameraFrustums(trajectoryData)
createCameraFrustums(g) ==
    IF g.trajectoryData = None \/ Len(Val(g.trajectoryData)) = 0
    THEN [g EXCEPT !.cameraFrustums = FALSE]
    ELSE LET mapping == RenderIndices(Val(g.trajectoryData), g.bestViewFrameIds)
             meshes == [h \in 1..Len(mapping) |->
                           CameraMesh(h - 1, mapping, Val(g.trajectoryData),
                                      g.bestViewFrameIds)]
         IN  [g EXCEPT !.renderPosesMapping = mapping,
                       !.cameraBodyInstances = meshes,
                       !.cameraLensInstances = meshes,
                       !.cameraFrustums = TRUE]

\* a rebuild that aligns the poses to the cloud once more before it builds
\* the meshes
recreateCameraFrustumsRealigning(g) ==
    IF g.trajectoryData = None \/ Len(Val(g.trajectoryData)) = 0 THEN g
    ELSE createCameraFrustums(
             [g EXCEPT !.trajectoryData =
                           Some(transformTrajectoryData(
                                    Val(@), Val(g.pointCloudTransform).center,
                                    Val(g.pointCloudTransform).scale)),
                       !.cameraFrustums = FALSE,
                       !.cameraBodyInstances = <<>>,
                       !.cameraLensInstances = <<>>])

recreateCameraFrustums(g) ==
    IF g.trajectoryData = None \/ Len(Val(g.trajectoryData)) = 0 THEN g
    ELSE createCameraFrustums(
             IF g.cameraFrustums
             THEN [g EXCEPT !.cameraFrustums = FALSE,
                            !.cameraBodyInstances = <<>>,
                            !.cameraLensInstances = <<>>]
             ELSE g)

toggleCameraTrajectory(g, visible) ==
    LET g1 == [g EXCEPT !.trajectoryVisible = visible]
    IN  IF ~visible \/ g1.trajectoryData = None THEN g1
        ELSE LET g2 == IF ~g1.trajectoryTube
                       THEN [g1 EXCEPT !.trajectoryTube =
                                           createTrajectoryTube(Val(g1.trajectoryData))]
                       ELSE g1
             IN  IF ~g2.cameraFrustums THEN createCameraFrustums(g2) ELSE g2

cleanupTrajectory(g) ==
    [g EXCEPT !.trajectoryTube = FALSE,
              !.cameraFrustums = FALSE,
              !.trajectoryData = None,
              !.cameraBodyInstances = <<>>,
              !.cameraLensInstances = <<>>,
              !.selectedCameraIndex = -1,
              !.scanFolderPath = None]

-----------------------------------------------------------------------------
(* Point cloud load: loadPLYFile up to and after the read of its FileReader *)

\* cleanupLabels: every sprite leaves the scene (the debug lines, removed too
\* when asked for, are not modelled)
cleanupLabels(g, alsoCleanupDebugLines) == [g EXCEPT !.labelSprites = <<>>]

\* loadPLYFile up to reader.readAsArrayBuffer: the old cloud leaves the scene,
\* cleanupLabels(true), labelData = null
BeginLoadPLY(g) ==
    [cleanupLabels(g, TRUE) EXCEPT !.labelData = None,
                                   !.plyLoading = g.plyLoading + 1]

\* reader.onload: the cloud is normalized and its transform is stored
FinishLoadPLY(g, points) ==
    [g EXCEPT !.plyLoading = g.plyLoading - 1,
              !.pointCloudTransform = Some(NormalizeCloud(points))]

-----------------------------------------------------------------------------
(* Trajectory load: loadAndProcessTrajectory with loadCameraTrajectoryFromFile *)

\* a load that cleans up and waits for the file whether or not a point cloud
\* is loaded
BeginLoadTrajectoryUnguarded(g) ==
    [cleanupTrajectory(g) EXCEPT !.trajectoryLoading = g.trajectoryLoading + 1]

\* up to the await of the file read; without a point cloud it returns false
BeginLoadTrajectory(g) ==
    IF g.pointCloudTransform = None
    THEN [g EXCEPT !.trajectoryResult = Some("false")]
    ELSE [cleanupTrajectory(g) EXCEPT !.trajectoryLoading = g.trajectoryLoading + 1]

\* reader.onload and the rest of loadAndProcessTrajectory, then its caller
\* (the file input handler and tryAutoLoadTrajectory both show the trajectory
\* on success).  file is None when JSON.parse throws, else the parsed JSON;
\* the rejection of the parse is not caught by loadAndProcessTrajectory.
FinishLoadTrajectory(g, file) ==
    LET g0 == [g EXCEPT !.trajectoryLoading = g.trajectoryLoading - 1]
    IN  IF file = None THEN [g0 EXCEPT !.trajectoryResult = Some("rejected")]
        ELSE LET json == Val(file)
                 g1 == [g0 EXCEPT !.scanFolderPath = Some(ScanFolderOf(json))]
                 rawPoses == ParsePoses(json.poses)
             IN  IF Len(rawPoses) = 0
                 THEN [g1 EXCEPT !.trajectoryResult = Some("false")]
                 ELSE LET g2 == [g1 EXCEPT !.trajectoryResult = Some("true"),
                                           !.trajectoryData =
                                     Some(transformTrajectoryData(
                                              rawPoses,
                                              Val(g1.pointCloudTransform).center,
                                              Val(g1.pointCloudTransform).scale))]
                          g3 == IF g2.trajectoryVisible
                                THEN toggleCameraTrajectory(g2, TRUE)
                                ELSE g2
                      IN  toggleCameraTrajectory(g3, TRUE)

-----------------------------------------------------------------------------
(* Camera selection: onCameraClick, loadCameraFrames, displayFrameViewer,  *)
(* the close button of the frame viewer                                    *)

Frame(pose, isCurrent, label) ==
    [frameNumber |-> pose.index, isCurrent |-> isCurrent, label |-> label]

FramesToLoadByFrameNumber(poses, cameraIndex) ==
    LET frameIndex == poses[cameraIndex + 1].index
    IN  <<[frameNumber |-> frameIndex - 1, isCurrent |-> FALSE, label |-> "Previous"],
          [frameNumber |-> frameIndex, isCurrent |-> TRUE, label |-> "Selected"],
          [frameNumber |-> frameIndex + 1, isCurrent |-> FALSE, label |-> "Next"]>>

\* framesToLoad for the 0-based cameraIndex into trajectoryData
FramesToLoad(poses, cameraIndex) ==
    (IF cameraIndex > 0
     THEN <<Frame(poses[cameraIndex], FALSE, "Previous")>> ELSE <<>>)
    \o <<Frame(poses[cameraIndex + 1], TRUE, "Selected")>>
    \o (IF cameraIndex < Len(poses) - 1
        THEN <<Frame(poses[cameraIndex + 2], FALSE, "Next")>> ELSE <<>>)

\* the colour loop of highlightSelectedCamera and of the close button: the
\* mesh with handle selected (if any) turns cyan, every other mesh gets the
\* base colour of the pose renderPosesMapping names (the default colour when
\* it names none).  The hover colour of onCameraHover is not modelled.
RecolourCameras(g, selected) ==
    LET colour(h) ==
            IF h - 1 = selected THEN SELECTED_CAMERA_COLOR
            ELSE IF h \notin DOMAIN g.renderPosesMapping THEN DEFAULT_CAMERA_COLOR
            ELSE IF g.renderPosesMapping[h] + 1 \notin DOMAIN Val(g.trajectoryData)
                 THEN DEFAULT_CAMERA_COLOR
            ELSE BaseColor(Val(g.trajectoryData)[g.renderPosesMapping[h] + 1],
                           g.bestViewFrameIds)
    IN  [g EXCEPT !.cameraBodyInstances =
                      [h \in DOMAIN @ |-> [@[h] EXCEPT !.color = colour(h)]],
                  !.cameraLensInstances =
                      [h \in DOMAIN @ |-> [@[h] EXCEPT !.color = colour(h)]]]

highlightSelectedCamera(g, instanceId) ==
    IF Len(g.cameraBodyInstances) = 0 THEN g ELSE RecolourCameras(g, instanceId)

loadCameraFrames(g, cameraIndex) ==
    IF g.scanFolderPath = None \/ g.trajectoryData = None THEN g
    ELSE [g EXCEPT !.frameViewer =
              Some([frames |-> FramesToLoad(Val(g.trajectoryData), cameraIndex),
                    hidden |-> FALSE])]

\* the click hits the body mesh with handle instanceId; reading
\* trajectoryData[trajectoryIndex].index throws when the mapped index is not
\* an index of trajectoryData, after selectedCameraIndex was set
onCameraClick(g, instanceId) ==
    IF Len(g.cameraBodyInstances) = 0 \/ g.trajectoryData = None THEN g
    ELSE LET g1 == [g EXCEPT !.selectedCameraIndex = instanceId]
         IN  IF instanceId + 1 \notin DOMAIN g.renderPosesMapping THEN g1
             ELSE IF g.renderPosesMapping[instanceId + 1] + 1
                         \notin DOMAIN Val(g.trajectoryData) THEN g1
             ELSE loadCameraFrames(highlightSelectedCamera(g1, instanceId),
                                   g.renderPosesMapping[instanceId + 1])

closeFrameViewer(g) ==
    LET g1 == IF Len(g.cameraBodyInstances) > 0 /\ g.trajectoryData # None
              THEN RecolourCameras(g, -1) ELSE g
    IN  [g1 EXCEPT !.frameViewer = Some([Val(g.frameViewer) EXCEPT !.hidden = TRUE]),
                   !.selectedCameraIndex = -1]

-----------------------------------------------------------------------------
(* Label batch: the best-view set and the pose lookup of                   *)
(* loadLabelsDataWithWebappCalculation                                     *)

\* labeled_objects as a sequence of objects whose best_view is None or
\* Some([frame_id, bbox])
BestViewIds(objects) ==
    {Val(objects[i].best_view).frame_id :
         i \in {j \in 1..Len(objects) : objects[j].best_view # None}}

HasPose(poses, frameId) == \E i \in 1..Len(poses) : poses[i].index = frameId

FindPoseByArrayIndex(poses, frameId) == poses[frameId + 1]

\* trajectoryData.find(pose => pose.index === frameId)
FindPose(poses, frameId) ==
    poses[CHOOSE i \in 1..Len(poses) :
              /\ poses[i].index = frameId
              /\ \A j \in 1..(i - 1) : poses[j].index # frameId]

-----------------------------------------------------------------------------
(* Label localizer: calculate3DPositionFromBestView, getDepthAtPixel,      *)
(* unprojectTo3D, loadDepthImage, loadFrameIntrinsics                      *)

RGB_WIDTH == 1920
DEPTH_WIDTH == 256
SCALE_FACTOR == RDiv(R(RGB_WIDTH), R(DEPTH_WIDTH))

\* 10 cm margin of the bounds check
Margin == <<1, 10>>

\* A depth image as the canvas returns it: width, height and RGBA bytes.  The
\* frames of the model hold one pixel value in their left half and one in
\* their right half; data[idx] is read through the byte offset as in the code.
DepthDataAt(depthData, idx) ==
    LET pixel == idx \div 4
        column == pixel % depthData.width
        rgba == IF column < depthData.width \div 2
                THEN depthData.left ELSE depthData.right
    IN  rgba[(idx % 4) + 1]

\* the depth image is fetched from the scan folder; depthFile is None when the
\* fetch or the decoding fails
loadDepthImage(g, depthFile) ==
    IF g.scanFolderPath = None THEN None ELSE depthFile

\* frameFile is None when the fetch fails, else the parsed frame JSON
loadFrameIntrinsics(g, frameFile) ==
    IF g.scanFolderPath = None THEN None
    ELSE IF frameFile = None THEN None
    ELSE IF Len(Val(frameFile).intrinsics) # 9 THEN None
    ELSE LET k == Val(frameFile).intrinsics
         IN  Some([fx |-> R(k[1]), fy |-> R(k[5]), cx |-> R(k[3]), cy |-> R(k[6])])

Implausible(depthMM) == depthMM < 500 \/ depthMM > 10000

DepthIndicesReadUnchecked(depthData, x, y) ==
    LET idx == (RFloor(y) * depthData.width + RFloor(x)) * 4
    IN  <<idx, idx + 1>>

\* the indices of depthData.data that getDepthAtPixel reads: none for a pixel
\* outside the image, else those of the red and the green byte of the pixel
DepthIndicesRead(depthData, x, y) ==
    LET ix == RFloor(x)
        iy == RFloor(y)
    IN  IF ix < 0 \/ ix >= depthData.width \/ iy < 0 \/ iy >= depthData.height
        THEN <<>>
        ELSE LET idx == (iy * depthData.width + ix) * 4
             IN  <<idx, idx + 1>>

\* metres, or None for a pixel outside the image
getDepthAtPixel(depthData, x, y) ==
    LET read == DepthIndicesRead(depthData, x, y)
    IN  IF read = <<>>
        THEN None
        ELSE LET r == DepthDataAt(depthData, read[1])
                 g == DepthDataAt(depthData, read[2])
                 depthMM_v1 == r * 256 + g
                 depthMM_v2 == g * 256 + r
                 depthMM == IF ~Implausible(depthMM_v1) THEN R(depthMM_v1)
                            ELSE IF ~Implausible(depthMM_v2) THEN R(depthMM_v2)
                            ELSE RMul(RDiv(R(r), R(255)), R(10000))
             IN  Some(RDiv(depthMM, R(1000)))

\* !depth || depth <= 0 || depth > 10.0
InvalidDepth(depth) ==
    \/ depth = None
    \/ IsNaN(Val(depth))
    \/ Val(depth) = R(0)
    \/ RLe(Val(depth), R(0))
    \/ RGt(Val(depth), R(10))

CameraZForward(depth) == depth

\* const zCam = -depth
CameraZ(depth) == RNeg(depth)

\* Vector4(x, y, z, 1).applyMatrix4(m) for a matrix of integer entries
ApplyMatrix4(m, v) ==
    [i \in 1..3 |->
        RAdd(RAdd(RMul(R(m[i][1]), v[1]), RMul(R(m[i][2]), v[2])),
             RAdd(RMul(R(m[i][3]), v[3]), R(m[i][4])))]

\* an unprojection that puts every pixel at depth 1
unprojectTo3DAtUnitDepth(pixelX, pixelY, depth, intrinsics, cameraToWorld) ==
    ApplyMatrix4(cameraToWorld,
                 <<RDiv(RSub(pixelX, intrinsics.cx), intrinsics.fx),
                   RDiv(RSub(pixelY, intrinsics.cy), intrinsics.fy),
                   R(-1)>>)

unprojectTo3D(pixelX, pixelY, depth, intrinsics, cameraToWorld) ==
    LET xCam == RDiv(RMul(RSub(pixelX, intrinsics.cx), depth), intrinsics.fx)
        yCam == RDiv(RMul(RSub(pixelY, intrinsics.cy), depth), intrinsics.fy)
        zCam == CameraZ(depth)
    IN  ApplyMatrix4(cameraToWorld, <<xCam, yCam, zCam>>)

\* centerX_rgb, centerY_rgb of the bbox [x, y, w, h]
BboxCenter(bbox) ==
    <<RAdd(R(bbox[1]), RDiv(R(bbox[3]), R(2))),
      RAdd(R(bbox[2]), RDiv(R(bbox[4]), R(2)))>>

OutsideBounds(point, bounds) ==
    \E k \in 1..3 :
        \/ RLt(point[k], RSub(bounds.min[k], Margin))
        \/ RGt(point[k], RAdd(bounds.max[k], Margin))

Rejected(warning) == [position |-> None, warning |-> warning]

ClampIntoBounds(point, bounds) ==
    [position |-> Some([k \in 1..3 |-> RMax(bounds.min[k], RMin(point[k], bounds.max[k]))]),
     warning |-> "none"]

\* the bounds check: the point is returned as it is or the label is rejected
CheckBounds(point, bounds) ==
    IF OutsideBounds(point, bounds) THEN Rejected("outside bounds")
    ELSE [position |-> Some(point), warning |-> "none"]

NormalizeLabelPointScaleFirst(point3D, center, scale) ==
    VSub(VScale(point3D, scale), center)

\* point3D.sub(center); point3D.multiplyScalar(scale)
NormalizeLabelPoint(point3D, center, scale) ==
    VScale(VSub(point3D, center), scale)

\* the value returned (None for null) and the warning logged on the way
calculate3DPositionFromBestView(g, bbox, cameraPose, depthFile, frameFile) ==
    LET depthData == loadDepthImage(g, depthFile)
        intrinsics == loadFrameIntrinsics(g, frameFile)
        center_rgb == BboxCenter(bbox)
        depth == getDepthAtPixel(Val(depthData),
                                 RDiv(center_rgb[1], SCALE_FACTOR),
                                 RDiv(center_rgb[2], SCALE_FACTOR))
        point3D == unprojectTo3D(center_rgb[1], center_rgb[2], Val(depth),
                                 Val(intrinsics), cameraPose.matrix)
    IN  IF depthData = None THEN Rejected("no depth image")
        ELSE IF intrinsics = None THEN Rejected("no intrinsics")
        ELSE IF InvalidDepth(depth) THEN Rejected("invalid depth")
        ELSE IF g.pointCloudTransform = None
             THEN [position |-> Some(point3D), warning |-> "none"]
        ELSE CheckBounds(
                 NormalizeLabelPoint(point3D, Val(g.pointCloudTransform).center,
                                     Val(g.pointCloudTransform).scale),
                 Val(g.pointCloudTransform).bounds)

-----------------------------------------------------------------------------
(* Label batch: loadLabelsDataWithWebappCalculation and its deprecated     *)
(* fallback loadLabelsData.  A call suspended at the await of an object is *)
(* a record of its locals: the labelled objects, the position next of the  *)
(* awaited object, the pose found for it and the two counters.             *)

\* the entry pushed to labelData.labeled_objects for a localized object
LabelEntry(obj, position3D, cameraPose) ==
    [object |-> obj,
     label_3d |-> [position |-> Some(position3D),
                   calculated_in_webapp |-> TRUE,
                   camera_position |-> Some(cameraPose.position),
                   frame_id |-> Some(Val(obj.best_view).frame_id)]]

\* obj.label_3d.position as the label file brings it (computed by the
\* Python pipeline), None when the object has no label_3d
PythonPosition(obj) ==
    IF "label_3d" \in DOMAIN obj THEN Some(obj.label_3d.position) ELSE None

\* loadLabelsData: every object is kept with the label_3d of the file, marked
\* as not calculated here; it returns false
loadLabelsData(g, objects) ==
    [g EXCEPT !.labelsResult = Some(FALSE),
              !.labelData =
        Some([labeled_objects |->
                 [i \in 1..Len(objects) |->
                     [object |-> objects[i],
                      label_3d |-> [position |-> PythonPosition(objects[i]),
                                    calculated_in_webapp |-> FALSE,
                                    camera_position |-> None,
                                    frame_id |-> None]]]])]

EndLabelBatchWithoutRebuild(g, successCount, failCount) ==
    [g EXCEPT !.labelsResult = Some(successCount > 0),
              !.labelsReport = Some([successCount |-> successCount,
                                     failCount |-> failCount,
                                     result |-> successCount > 0])]

\* after the loop: the counts are logged, if (trajectoryData)
\* recreateCameraFrustums(), return successCount > 0
EndLabelBatch(g, successCount, failCount) ==
    LET g1 == IF g.trajectoryData # None THEN recreateCameraFrustums(g) ELSE g
    IN  [g1 EXCEPT !.labelsResult = Some(successCount > 0),
                   !.labelsReport = Some([successCount |-> successCount,
                                          failCount |-> failCount,
                                          result |-> successCount > 0])]

\* a failure that takes the following object down with it
AfterFailureSkippingNext(next, failCount) ==
    [next |-> next + 2, failCount |-> failCount + 1]

\* a failed object: failCount++ and on to the next object
AfterFailure(next, failCount) == [next |-> next + 1, failCount |-> failCount + 1]

\* the for loop from the object at position next up to the next await or the
\* return; trajectoryData.find throws when trajectoryData is null, and the
\* catch of the function returns false at once
RECURSIVE RunLabelLoop(_, _, _, _, _)
RunLabelLoop(g, objects, next, successCount, failCount) ==
    IF next > Len(objects) THEN EndLabelBatch(g, successCount, failCount)
    ELSE IF objects[next].best_view = None
         THEN LET f == AfterFailure(next, failCount)
              IN  RunLabelLoop(g, objects, f.next, successCount, f.failCount)
    ELSE IF g.trajectoryData = None THEN [g EXCEPT !.labelsResult = Some(FALSE)]
    ELSE IF ~HasPose(Val(g.trajectoryData), Val(objects[next].best_view).frame_id)
         THEN LET f == AfterFailure(next, failCount)
              IN  RunLabelLoop(g, objects, f.next, successCount, f.failCount)
    ELSE [g EXCEPT !.labelBatches =
              Append(@, [objects |-> objects,
                         next |-> next,
                         cameraPose |-> FindPose(Val(g.trajectoryData),
                                                 Val(objects[next].best_view).frame_id),
                         successCount |-> successCount,
                         failCount |-> failCount])]

\* the call up to its first await or its return: cleanupLabels(true), then
\* without labelled objects it returns false, without a trajectory it falls
\* back to loadLabelsData
BeginLabelBatch(g, objects) ==
    LET g0 == cleanupLabels(g, TRUE)
    IN  IF Len(objects) = 0 THEN [g0 EXCEPT !.labelsResult = Some(FALSE)]
        ELSE IF g0.trajectoryData = None \/ Len(Val(g0.trajectoryData)) = 0
             THEN loadLabelsData(g0, objects)
        ELSE RunLabelLoop([g0 EXCEPT !.bestViewFrameIds = BestViewIds(objects),
                                     !.labelData = Some([labeled_objects |-> <<>>])],
                          objects, 1, 0, 0)

\* the k-th suspended call resumes with the files fetched for its object and
\* runs up to its next await or its return; labelData.labeled_objects.push
\* throws when labelData is null
ResumeLabelBatch(g, k, depthFile, frameFile) ==
    LET call == g.labelBatches[k]
        g0 == [g EXCEPT !.labelBatches =
                  SubSeq(@, 1, k - 1) \o SubSeq(@, k + 1, Len(@))]
        obj == call.objects[call.next]
        position3D == calculate3DPositionFromBestView(
                          g0, Val(obj.best_view).bbox, call.cameraPose,
                          depthFile, frameFile).position
    IN  IF position3D # None
        THEN IF g0.labelData = None THEN [g0 EXCEPT !.labelsResult = Some(FALSE)]
             ELSE RunLabelLoop(
                      [g0 EXCEPT !.labelData =
                          Some([labeled_objects |->
                                   Append(Val(@).labeled_objects,
                                          LabelEntry(obj, Val(position3D),
                                                     call.cameraPose))])],
                      call.objects, call.next + 1,
                      call.successCount + 1, call.failCount)
        ELSE LET f == AfterFailure(call.next, call.failCount)
             IN  RunLabelLoop(g0, call.objects, f.next, call.successCount, f.failCount)

-----------------------------------------------------------------------------
(* Label sprites: renderLabels and toggleSemanticLabels                     *)

\* the sprite of a stored label
LabelSprite(entry, visible) ==
    [position |-> Val(entry.label_3d.position), visible |-> visible]

\* a renderer that shows every label that has a position
renderLabelsWithAnyPosition(g) ==
    IF g.labelData = None THEN g
    ELSE LET shown == SelectSeq(Val(g.labelData).labeled_objects,
                                LAMBDA e : e.label_3d.position # None)
         IN  [g EXCEPT !.labelSprites =
                 [n \in 1..Len(shown) |-> LabelSprite(shown[n], g.labelsVisible)]]

\* renderLabels: cleanupLabels(), then one sprite for every label that has a
\* position and was calculated in the webapp
renderLabels(g) ==
    IF g.labelData = None THEN g
    ELSE LET shown == SelectSeq(Val(g.labelData).labeled_objects,
                                LAMBDA e : /\ e.label_3d.position # None
                                           /\ e.label_3d.calculated_in_webapp)
         IN  [cleanupLabels(g, FALSE) EXCEPT !.labelSprites =
                 [n \in 1..Len(shown) |-> LabelSprite(shown[n], g.labelsVisible)]]

toggleSemanticLabels(g, visible) ==
    LET g1 == [g EXCEPT !.labelsVisible = visible]
    IN  IF visible /\ g1.labelData = None THEN g1
        ELSE IF visible /\ Len(g1.labelSprites) = 0 THEN renderLabels(g1)
        ELSE [g1 EXCEPT !.labelSprites =
                 [n \in DOMAIN @ |-> [@[n] EXCEPT !.visible = visible]]]

-----------------------------------------------------------------------------
(* SpecNormalize: the normalizer applied to every bounded point cloud *)

RECURSIVE SeqsUpTo(_, _)
SeqsUpTo(S, n) ==
    IF n = 0 THEN {<<>>}
    ELSE LET shorter == SeqsUpTo(S, n - 1)
         IN  shorter \cup {Append(s, x) : s \in {t \in shorter : Len(t) = n - 1}, x \in S}

GridPoints ==
    {<<x, yz[1], yz[2]>> : x \in 0..MaxCoord, yz \in {<<0, 0>>, <<1, 0>>, <<0, 3>>}}

Clouds == SeqsUpTo(GridPoints, MaxPoints) \ {<<>>}

InitNormalize ==
    /\ input \in Clouds
    /\ output = None
    /\ InitProgram

\* reader.onload of loadPLYFile for the parsed positions
PLYLoaded(points) ==
    /\ pointCloudTransform = None
    /\ pointCloudTransform' = Some(NormalizeCloud(points))
    /\ UNCHANGED <<input, output, trajectoryData, scanFolderPath, indexVars>>

ApplyNormalize == PLYLoaded(input)

NextNormalize == ApplyNormalize

SpecNormalize == InitNormalize /\ [][NextNormalize]_vars

NonCoincident(points) == \E i, j \in 1..Len(points) : points[i] # points[j]

LargestExtent(bounds) ==
    LET size == BoxSize(bounds) IN RMax(size[1], RMax(size[2], size[3]))

\* C1: after normalization of a cloud with at least two non-coincident points
\* the largest extent of pointCloudTransform.bounds equals the target size 4.
C1_LargestExtentIsTarget ==
    (pointCloudTransform # None /\ NonCoincident(input))
        => LargestExtent(Val(pointCloudTransform).bounds) = R(TargetSize)

\* a normalized cloud whose three extents all differ, the largest being 4
C1_Witness ==
    /\ pointCloudTransform # None
    /\ NonCoincident(input)
    /\ LET size == BoxSize(Val(pointCloudTransform).bounds)
       IN  /\ size[3] = R(4)
           /\ RLt(size[1], size[3])
           /\ RLt(size[2], size[1])
           /\ RLt(R(0), size[2])

\* C3: the stored normalization centre is the arithmetic mean of all point
\* positions of the cloud.
C3_CenterIsMean ==
    pointCloudTransform # None
        => Val(pointCloudTransform).center
             = CloudCenterMean([i \in 1..Len(input) |->
                                  V3(input[i][1], input[i][2], input[i][3])])

\* C13: for a cloud whose points all coincide (a single point included) the
\* stored scale is 1 and the stored bounds have zero size.
C13_CoincidentCloudGetsUnitScale ==
    (pointCloudTransform # None /\ ~NonCoincident(input))
        => /\ Val(pointCloudTransform).scale = R(1)
           /\ BoxSize(Val(pointCloudTransform).bounds) = <<R(0), R(0), R(0)>>

-----------------------------------------------------------------------------
(* SpecPose: buildMatrixFromPoseArray applied to both flattenings of every   *)
(* bounded 4x4 matrix (every 16-element array is the row-major flattening of *)
(* some matrix)                                                              *)

Blocks3 == [1..3 -> [1..3 -> {-1, 0, 1}]]

\* the 24 axis-aligned rotations
SignedPermutations ==
    {[i \in 1..3 |-> [j \in 1..3 |-> IF p[i] = j THEN s[i] ELSE 0]] :
         p \in {q \in [1..3 -> 1..3] : {q[1], q[2], q[3]} = 1..3},
         s \in [1..3 -> {-1, 1}]}

Rotations == {b \in SignedPermutations : IsRotation(b)}

\* rotation blocks and two blocks that are no rotation (a shear, a scaling)
PoseBlocks ==
    Rotations \cup {<<<<1, 1, 0>>, <<0, 1, 0>>, <<0, 0, 1>>>>,
                    <<<<1, 0, 0>>, <<0, 1, 0>>, <<0, 0, 0>>>>}

TransVectors == {<<x, y, z>> : x \in -1..MaxTrans, y \in -1..MaxTrans, z \in -1..MaxTrans}

BottomRows == {<<x, y, z>> : x \in {0, 1}, y \in {0, 1}, z \in {0, -1}}

PoseMatrices == {Compose4(b, t, r) : b \in PoseBlocks, t \in TransVectors, r \in BottomRows}

InitPose ==
    /\ input \in PoseMatrices
    /\ output = [row |-> None, col |-> None]
    /\ InitProgram

\* decode the row-major flattening of the matrix
DecodeRowMajor ==
    /\ output.row = None
    /\ output' = [output EXCEPT !.row = Some(BuildMatrixFromPoseArray(RowMajor(input)))]
    /\ UNCHANGED <<input, programVars>>

\* decode the column-major flattening of the matrix
DecodeColMajor ==
    /\ output.col = None
    /\ output' = [output EXCEPT !.col = Some(BuildMatrixFromPoseArray(ColMajor(input)))]
    /\ UNCHANGED <<input, programVars>>

NextPose == DecodeRowMajor \/ DecodeColMajor

SpecPose == InitPose /\ [][NextPose]_vars

CandidateRow(p) == <<p[4], p[8], p[12]>>
CandidateCol(p) == <<p[13], p[14], p[15]>>

\* the decoded translation is the candidate of larger magnitude
LargerCandidateWins(p, m) ==
    /\ IntLenSq(CandidateRow(p)) > IntLenSq(CandidateCol(p)) => Translation(m) = CandidateRow(p)
    /\ IntLenSq(CandidateCol(p)) > IntLenSq(CandidateRow(p)) => Translation(m) = CandidateCol(p)
    /\ Translation(m) \in {CandidateRow(p), CandidateCol(p)}
    /\ IntLenSq(Translation(m)) >= IntLenSq(CandidateRow(p))
    /\ IntLenSq(Translation(m)) >= IntLenSq(CandidateCol(p))

\* C7: for every 16-element pose array the decoded matrix has as translation
\* whichever of the candidates (3,7,11) and (12,13,14) has the larger
\* magnitude, so its magnitude is the maximum of the two candidate magnitudes.
C7_TranslationIsLargerCandidate ==
    /\ output.row # None => LargerCandidateWins(RowMajor(input), Val(output.row))
    /\ output.col # None => LargerCandidateWins(ColMajor(input), Val(output.col))

\* both candidates non-zero and of different magnitude, the column-major
\* candidate being the larger one, and the array decoded
C7_Witness ==
    /\ output.row # None
    /\ IntLenSq(CandidateRow(RowMajor(input))) > 0
    /\ IntLenSq(CandidateCol(RowMajor(input))) > IntLenSq(CandidateRow(RowMajor(input)))
    /\ Translation(Val(output.row)) = CandidateCol(RowMajor(input))

\* C8 as stated: for every rigid pose the row-major and the column-major
\* flattening decode to the same matrix.
C8_OrderInvariantEveryRigidPose ==
    (IsRigid(input) /\ output.row # None /\ output.col # None)
        => output.row = output.col

\* C8 amended: for every rigid pose with a non-zero translation the two
\* flattenings decode to the same matrix, the pose itself.
C8_OrderInvariantNonZeroTranslation ==
    (IsRigid(input) /\ IntLenSq(Translation(input)) > 0
        /\ output.row # None /\ output.col # None)
        => (output.row = output.col /\ Val(output.row) = input)

\* a rigid pose with a non-symmetric rotation and a non-zero translation,
\* decoded from both flattenings
C8_Witness ==
    /\ IsRigid(input)
    /\ IntLenSq(Translation(input)) > 0
    /\ MatrixRotation(input) # MatrixRotation(Transpose4(input))
    /\ output.row # None
    /\ output.col # None
    /\ Val(output.col) = input

-----------------------------------------------------------------------------
(* Events shared by the scene specifications.  input is a record: cloud is  *)
(* the dropped PLY, trajectory the trajectory file (None when it does not   *)
(* parse), labels the labeled_objects of the label file, depth and frame    *)
(* the depth image and frame JSON of the scan folder (depths and frames     *)
(* where the scan folder holds files of several frame ids).                 *)

Handle(g) == Become(g) /\ UNCHANGED <<input, output>>

ScenePLYLoaded == PLYLoaded(input.cloud)

\* a trajectory file is chosen, or found by tryAutoLoadTrajectory
TrajectoryFileChosen ==
    /\ trajectoryLoading < MaxInFlight
    /\ Handle(BeginLoadTrajectory(Globals))

TrajectoryFileRead ==
    /\ trajectoryLoading > 0
    /\ Handle(FinishLoadTrajectory(Globals, input.trajectory))

\* the change handler of the trajectory checkbox
TrajectoryToggled ==
    \E visible \in BOOLEAN : Handle(toggleCameraTrajectory(Globals, visible))

IdentityBlock == <<<<1, 0, 0>>, <<0, 1, 0>>, <<0, 0, 1>>>>

\* the pose array of a camera with rotation block b at translation t
PoseArrayOf(b, t) == RowMajor(Compose4(b, t, <<0, 0, 0>>))

\* a trajectory JSON whose k-th pose record has frame id ids[k] and array arrays[k]
TrajectoryJson(folder, ids, arrays) ==
    [scan_folder |-> folder,
     poses |-> [k \in 1..Len(arrays) |->
                   [frame_index |-> ids[k], cameraPoseARFrame |-> arrays[k]]]]

-----------------------------------------------------------------------------
(* SpecAlign: a point cloud is loaded and trajectory files are aligned to it *)

\* the 8 corners of the 2x2x2 cube centred at (5,5,5)
CubeCorners ==
    <<<<4, 4, 4>>, <<6, 4, 4>>, <<4, 6, 4>>, <<6, 6, 4>>,
      <<4, 4, 6>>, <<6, 4, 6>>, <<4, 6, 6>>, <<6, 6, 6>>>>

AlignClouds == {CubeCorners, <<<<0, 0, 0>>, <<4, 4, 4>>>>, <<<<5, 5, 5>>>>}

\* three cameras looking along -z, one turned half round about x, and a
\* record without a pose array
AlignArrays ==
    {PoseArrayOf(IdentityBlock, t) : t \in {<<5, 5, 5>>, <<6, 5, 5>>, <<7, 5, 5>>}}
    \cup {PoseArrayOf(<<<<1, 0, 0>>, <<0, -1, 0>>, <<0, 0, -1>>>>, <<2, 2, 2>>), <<>>}

AlignFiles ==
    {None} \cup
    {Some(TrajectoryJson("", [k \in 1..Len(a) |-> k - 1], a)) :
         a \in SeqsUpTo(AlignArrays, MaxPoses)}

InitAlign ==
    /\ input \in [cloud : AlignClouds, trajectory : AlignFiles]
    /\ output = None
    /\ InitProgram

NextAlign ==
    \/ ScenePLYLoaded
    \/ TrajectoryFileChosen
    \/ TrajectoryFileRead
    \/ TrajectoryToggled

SpecAlign == InitAlign /\ [][NextAlign]_vars

NearZero(x) == RLe(<<-1, 10000>>, x) /\ RLe(x, <<1, 10000>>)

\* C2: for every trajectory transformed against the loaded cloud's transform
\* (of a cloud with non-coincident points, so that the scale is finite) the
\* mean of the aligned camera positions is the origin within 1e-4.
C2_CameraCentroidAtOrigin ==
    (trajectoryData # None /\ IsFinite(Val(pointCloudTransform).scale))
        => LET c == CameraCentroid(Val(trajectoryData))
           IN  NearZero(c[1]) /\ NearZero(c[2]) /\ NearZero(c[3])

\* the raw poses of the trajectory file, in file order
RawPoses == ParsePoses(Val(input.trajectory).poses)

\* C12: the aligned trajectory has the poses of the raw trajectory in the
\* same order, none added or removed, and every aligned pose has the frame
\* id, the quaternion and the 4x4 matrix of its raw pose; only the position
\* is the transformed one.
C12_OnlyPositionsChange ==
    trajectoryData # None
        => /\ Len(Val(trajectoryData)) = Len(RawPoses)
           /\ \A i \in 1..Len(RawPoses) :
                  /\ Val(trajectoryData)[i].index = RawPoses[i].index
                  /\ Val(trajectoryData)[i].quaternion = RawPoses[i].quaternion
                  /\ Val(trajectoryData)[i].matrix = RawPoses[i].matrix
                  /\ DOMAIN Val(trajectoryData)[i] = DOMAIN RawPoses[i]

\* three aligned poses whose positions all moved, the second one turned and
\* translated in its kept matrix
C12_Witness ==
    /\ trajectoryData # None
    /\ Len(Val(trajectoryData)) = 3
    /\ \A i \in 1..3 : Val(trajectoryData)[i].position # RawPoses[i].position
    /\ Val(trajectoryData)[2].quaternion # Val(trajectoryData)[1].quaternion
    /\ Translation(Val(trajectoryData)[2].matrix) = <<2, 2, 2>>
    /\ Val(trajectoryData)[1].index < Val(trajectoryData)[2].index

\* the records of the trajectory file that carry an array of 16 numbers
WellFormedRecords ==
    SelectSeq(Val(input.trajectory).poses,
              LAMBDA rec : Len(rec.cameraPoseARFrame) = 16)

\* C18: when the read of a trajectory file with at least one well-formed
\* pose record returns, the trajectory is loaded and holds exactly the
\* well-formed records, in file order, each with its own frame id and its
\* own decoded matrix; the records without an array of 16 numbers are left
\* out one by one.
C18_MalformedRecordsSkippedAlone ==
    [][(/\ trajectoryLoading' < trajectoryLoading
        /\ input.trajectory # None
        /\ Len(WellFormedRecords) > 0)
          => /\ trajectoryData' # None
             /\ Len(Val(trajectoryData')) = Len(WellFormedRecords)
             /\ \A i \in 1..Len(WellFormedRecords) :
                    /\ Val(trajectoryData')[i].index = WellFormedRecords[i].frame_index
                    /\ Val(trajectoryData')[i].matrix
                         = BuildMatrixFromPoseArray(WellFormedRecords[i].cameraPoseARFrame)]_vars

\* a loaded trajectory of the first and the third record of a file whose
\* second record has no pose array
C18_Witness ==
    /\ trajectoryData # None
    /\ Len(Val(input.trajectory).poses) = 3
    /\ Val(input.trajectory).poses[2].cameraPoseARFrame = <<>>
    /\ Len(Val(trajectoryData)) = 2
    /\ Val(trajectoryData)[1].index = 0
    /\ Val(trajectoryData)[2].index = 2
    /\ Val(trajectoryData)[1].matrix # Val(trajectoryData)[2].matrix

\* what loadCameraTrajectoryFromFile hands its caller for a file (the array
\* it resolves with, whose length it also logs) and the number of records of
\* the file that are not in it
ResolvedFor(file) == ParsePoses(Val(file).poses)
DroppedFrom(file) == Len(Val(file).poses) - Len(ResolvedFor(file))

\* C19: the caller of the parse can obtain the number of dropped pose
\* records: two files for which it is handed the same poses dropped the same
\* number of records.
C19_DroppedCountObtainable ==
    trajectoryData # None
        => \A other \in AlignFiles \ {None} :
               ResolvedFor(other) = ResolvedFor(input.trajectory)
                   => DroppedFrom(other) = DroppedFrom(input.trajectory)

-----------------------------------------------------------------------------
(* SpecLocalize: one labelled object is localized against a loaded scene   *)

LocalizeClouds ==
    {<<<<0, 0, 0>>, <<4, 4, 4>>>>, <<<<0, 0, 0>>, <<2, 2, 2>>>>, <<<<1, 1, 1>>>>}

\* the identity, a half turn about x and a block that is no rotation
LocalizeBlocks ==
    {IdentityBlock,
     <<<<1, 0, 0>>, <<0, -1, 0>>, <<0, 0, -1>>>>,
     <<<<2, 0, 0>>, <<0, 2, 0>>, <<0, 0, 2>>>>}

LocalizeTranslations == {<<2, 2, 2>>, <<2, 2, 4>>, <<2, 2, 7>>}

LabelFrameId == 7

LocalizeFiles ==
    {Some(TrajectoryJson("scan_a", <<LabelFrameId>>, <<PoseArrayOf(b, t)>>)) :
         b \in LocalizeBlocks, t \in LocalizeTranslations}

\* bbox centres (0,0), (100,100), (960,720) and one right of the image
Bboxes ==
    {<<0, 0, 0, 0>>, <<50, 50, 100, 100>>, <<900, 700, 120, 40>>, <<1900, 0, 100, 0>>}

\* red and green byte of a depth pixel: 2000 mm big-endian, 15000 mm
\* big-endian, zero, 2000 mm little-endian, saturated, 5120 mm little-endian
Samples == {<<7, 208>>, <<58, 152>>, <<0, 0>>, <<208, 7>>, <<255, 255>>, <<0, 20>>}

DepthImage(left, right) ==
    [width |-> 256, height |-> 192,
     left |-> <<left[1], left[2], 0, 255>>,
     right |-> <<right[1], right[2], 0, 255>>]

\* a depth frame exported at half the usual resolution, 2000 mm everywhere
HalfSizeDepthImage ==
    [DepthImage(<<7, 208>>, <<7, 208>>) EXCEPT !.width = 128, !.height = 96]

DepthFiles ==
    {None} \cup {Some(DepthImage(s, <<7, 208>>)) : s \in Samples}
           \cup {Some(DepthImage(<<7, 208>>, <<58, 152>>)), Some(HalfSizeDepthImage)}

FrameFiles ==
    {None,
     Some([intrinsics |-> <<>>]),
     Some([intrinsics |-> <<500, 0, 0, 0, 500, 0, 0, 0, 1>>]),
     Some([intrinsics |-> <<1500, 0, 960, 0, 1500, 720, 0, 0, 1>>]),
     Some([intrinsics |-> <<0, 0, 0, 0, 500, 0, 0, 0, 1>>])}

LabelObject(frameId, bbox) ==
    [best_view |-> Some([frame_id |-> frameId, bbox |-> bbox])]

InitLocalize ==
    /\ input \in [cloud : LocalizeClouds,
                  trajectory : LocalizeFiles,
                  labels : {<<LabelObject(LabelFrameId, b)>> : b \in Bboxes},
                  depth : DepthFiles,
                  frame : FrameFiles]
    /\ output = None
    /\ InitProgram

\* the call of calculate3DPositionFromBestView for the first labelled object,
\* made once its best-view frame has a pose in the trajectory
LabelCalculated ==
    /\ output = None
    /\ trajectoryData # None
    /\ Len(Val(trajectoryData)) > 0
    /\ input.labels[1].best_view # None
    /\ LET bestView == Val(input.labels[1].best_view)
       IN  /\ HasPose(Val(trajectoryData), bestView.frame_id)
           /\ output' = Some(calculate3DPositionFromBestView(
                                 Globals, bestView.bbox,
                                 FindPose(Val(trajectoryData), bestView.frame_id),
                                 input.depth, input.frame))
    /\ UNCHANGED <<input, programVars>>

NextLocalize ==
    \/ ScenePLYLoaded
    \/ TrajectoryFileChosen
    \/ TrajectoryFileRead
    \/ LabelCalculated

SpecLocalize == InitLocalize /\ [][NextLocalize]_vars

\* what the localized candidate is made of
LabelBbox == Val(input.labels[1].best_view).bbox
LabelCenter == BboxCenter(LabelBbox)
LabelPose == ParsePoses(Val(input.trajectory).poses)[1]
LabelIntrinsics == Val(input.frame).intrinsics

\* the depth-map pixel under the bbox centre and the bytes stored there
SamplePixel ==
    <<RFloor(RDiv(LabelCenter[1], <<15, 2>>)), RFloor(RDiv(LabelCenter[2], <<15, 2>>))>>
SampleInImage ==
    /\ input.depth # None
    /\ SamplePixel[1] \in 0..(Val(input.depth).width - 1)
    /\ SamplePixel[2] \in 0..(Val(input.depth).height - 1)
SampleBytes ==
    IF SamplePixel[1] < Val(input.depth).width \div 2
    THEN Val(input.depth).left ELSE Val(input.depth).right

\* the localizer got as far as reading the depth sample
DepthStageReached ==
    /\ output # None
    /\ Val(output).warning \notin {"no depth image", "no intrinsics"}

\* the localizer got as far as the bounds check
BoundsStageReached ==
    /\ output # None
    /\ Val(output).warning \in {"none", "outside bounds"}

\* the metric depth used and the normalized point computed from it
UsedDepth ==
    Val(getDepthAtPixel(Val(input.depth), RDiv(LabelCenter[1], <<15, 2>>),
                        RDiv(LabelCenter[2], <<15, 2>>)))
ComputedPoint ==
    VScale(VSub(unprojectTo3D(LabelCenter[1], LabelCenter[2], UsedDepth,
                              [fx |-> R(LabelIntrinsics[1]), fy |-> R(LabelIntrinsics[5]),
                               cx |-> R(LabelIntrinsics[3]), cy |-> R(LabelIntrinsics[6])],
                              LabelPose.matrix),
                Val(pointCloudTransform).center),
           Val(pointCloudTransform).scale)

BelowOrAbove(point, bounds) ==
    \E k \in 1..3 :
        \/ RLt(point[k], RSub(bounds.min[k], <<1, 10>>))
        \/ RLt(RAdd(bounds.max[k], <<1, 10>>), point[k])

\* C4: no returned position has a coordinate below bounds.min - 0.1 or above
\* bounds.max + 0.1; a computed point that has one is rejected, and a returned
\* position is the computed point itself, never a clamped one.
C4_OutsideBoundsRejectedNeverClamped ==
    BoundsStageReached
        => LET bounds == Val(pointCloudTransform).bounds
               returned == Val(output).position
           IN  /\ returned # None => ~BelowOrAbove(Val(returned), bounds)
               /\ returned # None => Val(returned) = ComputedPoint
               /\ BelowOrAbove(ComputedPoint, bounds) => returned = None

\* a finite computed point above the bounds along z, rejected
C4_Witness ==
    /\ BoundsStageReached
    /\ \A k \in 1..3 : IsFinite(ComputedPoint[k])
    /\ RLt(RAdd(Val(pointCloudTransform).bounds.max[3], <<1, 10>>), ComputedPoint[3])
    /\ Val(output) = [position |-> None, warning |-> "outside bounds"]

OutOfRangeMM(mm) == mm <= 0 \/ mm > 10000

\* C5: a candidate whose depth sample reconstructs (in either byte order) to a
\* depth outside (0, 10] metres is rejected with the depth-range warning and
\* yields no position.
C5_OutOfRangeSampleRejected ==
    (DepthStageReached /\ SampleInImage
        /\ OutOfRangeMM(SampleBytes[1] * 256 + SampleBytes[2])
        /\ OutOfRangeMM(SampleBytes[2] * 256 + SampleBytes[1]))
        => Val(output) = [position |-> None, warning |-> "invalid depth"]

\* C16: a candidate whose floored depth-map coordinate lies outside
\* [0, width) x [0, height) of its depth frame is rejected for its depth, and
\* getDepthAtPixel reads no element of the depth data for it.
C16_OutOfFrameRejectedUnread ==
    (DepthStageReached /\ ~SampleInImage)
        => /\ Val(output) = [warning |-> "invalid depth", position |-> None]
           /\ DepthIndicesRead(Val(input.depth),
                               RDiv(LabelCenter[1], SCALE_FACTOR),
                               RDiv(LabelCenter[2], SCALE_FACTOR)) = <<>>

\* a rejected candidate whose pixel lies right of a depth frame that holds a
\* valid depth in every pixel, in a row that is not the last one
C16_Witness ==
    /\ DepthStageReached
    /\ SamplePixel[1] >= Val(input.depth).width
    /\ SamplePixel[2] \in 0..(Val(input.depth).height - 2)
    /\ Val(input.depth).left = <<7, 208, 0, 255>>
    /\ Val(input.depth).right = <<7, 208, 0, 255>>
    /\ Val(output).position = None

\* the bbox centre divided by detection width / width of the depth frame supplied
CenterInDepthFrame ==
    LET factor == RDiv(R(RGB_WIDTH), R(Val(input.depth).width))
    IN  <<RDiv(LabelCenter[1], factor), RDiv(LabelCenter[2], factor)>>

\* C15: the depth used for a candidate is the one stored at the bbox centre
\* divided by detectionImageWidth / depthMapWidth, depthMapWidth being the
\* width of the depth frame supplied: the candidate is rejected for its depth
\* exactly when that sample is missing or invalid.
C15_CentreScaledByDepthFrameWidth ==
    DepthStageReached
        => LET depth == getDepthAtPixel(Val(input.depth), CenterInDepthFrame[1],
                                        CenterInDepthFrame[2])
           IN  (Val(output).warning = "invalid depth") <=> InvalidDepth(depth)

\* the world point of the candidate before normalization
RawLabelPoint ==
    unprojectTo3D(LabelCenter[1], LabelCenter[2], UsedDepth,
                  [fx |-> R(LabelIntrinsics[1]), fy |-> R(LabelIntrinsics[5]),
                   cx |-> R(LabelIntrinsics[3]), cy |-> R(LabelIntrinsics[6])],
                  LabelPose.matrix)

\* the aligned position transformTrajectoryData gives a camera at raw position p
AlignedAt(p) ==
    transformTrajectoryData(<<[LabelPose EXCEPT !.position = p]>>,
                            Val(pointCloudTransform).center,
                            Val(pointCloudTransform).scale)[1].position

\* C14: under the stored pointCloudTransform the position the localizer
\* returns for a candidate with raw world point p is the position the
\* trajectory aligner gives a camera whose raw position is p.
C14_LabelNormalizedAsCamera ==
    (BoundsStageReached /\ Val(output).position # None)
        => Val(Val(output).position) = AlignedAt(RawLabelPoint)

\* a returned position under a transform with centre (1,1,1) and scale 2,
\* away from the raw point
C14_Witness ==
    /\ BoundsStageReached
    /\ Val(output).position # None
    /\ Val(pointCloudTransform).scale = R(2)
    /\ Val(pointCloudTransform).center = <<R(1), R(1), R(1)>>
    /\ Val(Val(output).position) # RawLabelPoint
    /\ Val(Val(output).position) = AlignedAt(RawLabelPoint)

\* the label position taken back into the frame of its camera: the rotation
\* transposed applied to (label - aligned camera position) / scale
AlignedCamera == FindPose(Val(trajectoryData), LabelFrameId).position
CameraToLabel == VSub(Val(Val(output).position), AlignedCamera)
InCameraFrame(k) ==
    LET d == VScale(CameraToLabel, RInv(Val(pointCloudTransform).scale))
        m == LabelPose.matrix
    IN  RAdd(RMul(R(m[1][k]), d[1]),
             RAdd(RMul(R(m[2][k]), d[2]), RMul(R(m[3][k]), d[3])))

\* a label was placed by a rigid camera in a cloud of finite non-zero scale
PlacedByRigidCamera ==
    /\ output # None
    /\ Val(output).position # None
    /\ trajectoryData # None
    /\ IsRigid(LabelPose.matrix)
    /\ IsFinite(Val(pointCloudTransform).scale)
    /\ \A k \in 1..3 : IsFinite(Val(Val(output).position)[k])

ExampleCandidate ==
    /\ Val(pointCloudTransform).scale = R(1)
    /\ UsedDepth = R(2)
    /\ LabelIntrinsics = <<500, 0, 0, 0, 500, 0, 0, 0, 1>>

\* C6 as stated: the camera-space z is -depth, and with scale 1, depth 2.0,
\* fx = fy = 500, cx = cy = 0 the label is at distance exactly 2.0 from the
\* aligned camera position.
C6_DistanceIsDepth ==
    PlacedByRigidCamera
        => /\ InCameraFrame(3) = RNeg(UsedDepth)
           /\ ExampleCandidate => VLenSq(CameraToLabel) = R(4)

\* C6 amended: the camera-space z is -depth for every placed label; the
\* distance is exactly 2.0 when in addition the bbox centre is the principal
\* point (cx, cy) = (0, 0).
C6_CameraZIsMinusDepth ==
    PlacedByRigidCamera
        => /\ InCameraFrame(3) = RNeg(UsedDepth)
           /\ (ExampleCandidate /\ LabelCenter = <<R(0), R(0)>>)
                  => VLenSq(CameraToLabel) = R(4)

\* the example candidate at the principal point, seen by a camera turned half
\* way round, placed at distance 2
C6_Witness ==
    /\ PlacedByRigidCamera
    /\ ExampleCandidate
    /\ LabelCenter = <<R(0), R(0)>>
    /\ MatrixRotation(LabelPose.matrix) # IdentityBlock
    /\ InCameraFrame(3) = R(-2)
    /\ VLenSq(CameraToLabel) = R(4)

-----------------------------------------------------------------------------
(* SpecIndex: the camera index of a loaded scene under trajectory loads,   *)
(* label batches, toggles, clicks and the close button                     *)

IndexCloud == <<<<0, 0, 0>>, <<4, 4, 4>>>>

TrajectoryLengths == {0, 1, 4} \cup 10..MaxFrames

\* frame ids differ from trajectory indices
FrameIdOf(trajectoryIndex) == 3 * trajectoryIndex + 1

\* n pose records, the one at position bad (if any) without a pose array
IndexFile(n, bad) ==
    TrajectoryJson("",
                   [k \in 1..n |-> FrameIdOf(k - 1)],
                   [k \in 1..n |-> IF k = bad THEN <<>>
                                   ELSE PoseArrayOf(IdentityBlock, <<k, 0, 0>>)])

IndexFiles ==
    {Some(IndexFile(n, 0)) : n \in TrajectoryLengths} \cup {Some(IndexFile(4, 2))}

NoBestView == [best_view |-> None]

LabelLists ==
    {<<>>, <<NoBestView>>}
    \cup {<<LabelObject(f, <<0, 0, 0, 0>>)>> :
              f \in {0, FrameIdOf(0), FrameIdOf(1), FrameIdOf(7)}}
    \cup {<<LabelObject(FrameIdOf(7), <<0, 0, 0, 0>>), NoBestView,
            LabelObject(FrameIdOf(3), <<0, 0, 0, 0>>)>>}

\* the scan folder holds no depth image and no frame JSON
IndexFrameIds == {FrameIdOf(t) : t \in 0..(MaxFrames - 1)}

InitIndex ==
    /\ input \in [cloud : {IndexCloud}, trajectory : IndexFiles, labels : LabelLists,
                  depths : {[f \in IndexFrameIds |-> None]},
                  frames : {[f \in IndexFrameIds |-> None]}]
    /\ output = None
    /\ InitProgram

LabelFileFound ==
    /\ pointCloudTransform # None
    /\ labelsLoading < MaxInFlight
    /\ Handle(BeginLabelBatch(Globals, input.labels))

\* the localization of the awaited object of a suspended call returns
LabelAwaitReturned ==
    \E k \in 1..Len(labelBatches) :
        LET call == labelBatches[k]
            frameId == Val(call.objects[call.next].best_view).frame_id
        IN  Handle(ResumeLabelBatch(Globals, k, input.depths[frameId],
                                    input.frames[frameId]))

\* a click whose ray hits the body mesh with handle instanceId
CameraClicked ==
    \E instanceId \in 0..(Len(cameraBodyInstances) - 1) :
        Handle(onCameraClick(Globals, instanceId))

ViewerClosed ==
    /\ frameViewer # None
    /\ ~Val(frameViewer).hidden
    /\ Handle(closeFrameViewer(Globals))

NextIndex ==
    \/ ScenePLYLoaded
    \/ TrajectoryFileChosen
    \/ TrajectoryFileRead
    \/ TrajectoryToggled
    \/ LabelFileFound
    \/ LabelAwaitReturned
    \/ CameraClicked
    \/ ViewerClosed

SpecIndex == InitIndex /\ [][NextIndex]_vars

\* C9: the camera index built by createCameraFrustums displays exactly the
\* poses whose trajectory index is even or whose frame id is a best-view
\* frame, hands out the handles 0, 1, 2, ... in trajectory order and records
\* handle -> trajectory index in renderPosesMapping (between the start of a
\* label batch and the rebuild at its end the index is the one of the
\* previous best-view set).
C9_DisplayedEvenOrBestView ==
    (cameraFrustums /\ labelsLoading = 0)
        => LET poses == Val(trajectoryData)
               shown == {t \in 0..(Len(poses) - 1) :
                            t % 2 = 0 \/ poses[t + 1].index \in bestViewFrameIds}
           IN  /\ {renderPosesMapping[h] : h \in DOMAIN renderPosesMapping} = shown
               /\ \A h1, h2 \in DOMAIN renderPosesMapping :
                      h1 < h2 => renderPosesMapping[h1] < renderPosesMapping[h2]
               /\ Len(cameraBodyInstances) = Len(renderPosesMapping)
               /\ Len(cameraLensInstances) = Len(renderPosesMapping)
               /\ \A h \in DOMAIN renderPosesMapping :
                      /\ cameraBodyInstances[h].cameraIndex = h - 1
                      /\ cameraBodyInstances[h].trajectoryIndex = renderPosesMapping[h]
                      /\ cameraLensInstances[h] = cameraBodyInstances[h]

\* 10 poses, the best-view set holding the frame id of pose 7: the displayed
\* trajectory indices are 0, 2, 4, 6, 7, 8
C9_Witness ==
    /\ cameraFrustums
    /\ labelsLoading = 0
    /\ Len(Val(trajectoryData)) = 10
    /\ bestViewFrameIds = {Val(trajectoryData)[8].index}
    /\ renderPosesMapping = <<0, 2, 4, 6, 7, 8>>
    /\ Len(cameraBodyInstances) = 6

\* the frame ids of the trajectory indices i-1 (if i > 0), i, i+1 (if i is
\* not the last index)
NeighbourFrameIds(poses, i) ==
    LET around == SelectSeq(<<i - 1, i, i + 1>>, LAMBDA t : t \in 0..(Len(poses) - 1))
    IN  [k \in 1..Len(around) |-> poses[around[k] + 1].index]

ShownFrameIds(viewer) ==
    [k \in 1..Len(viewer.frames) |-> viewer.frames[k].frameNumber]

\* C10: a click that selects the camera with handle h shows the frames of the
\* trajectory indices i-1 (only if i > 0), i and i+1 (only if i is not the
\* last index), in that order, for i = renderPosesMapping[h].
C10_NeighbourFramesLoaded ==
    [][(/\ selectedCameraIndex' >= 0
        /\ <<selectedCameraIndex, frameViewer>>' # <<selectedCameraIndex, frameViewer>>)
          => /\ frameViewer' # None
             /\ ~Val(frameViewer').hidden
             /\ ShownFrameIds(Val(frameViewer'))
                  = NeighbourFrameIds(Val(trajectoryData'),
                                      renderPosesMapping'[selectedCameraIndex' + 1])]_vars

\* a selected camera between two poses that are not displayed, its three
\* frames shown
C10_Witness ==
    /\ selectedCameraIndex >= 0
    /\ selectedCameraIndex + 1 \in DOMAIN renderPosesMapping
    /\ frameViewer # None
    /\ ~Val(frameViewer).hidden
    /\ trajectoryData # None
    /\ LET i == renderPosesMapping[selectedCameraIndex + 1]
           displayed == {renderPosesMapping[h] : h \in DOMAIN renderPosesMapping}
       IN  /\ i > 0
           /\ i + 1 < Len(Val(trajectoryData))
           /\ i - 1 \notin displayed
           /\ i + 1 \notin displayed
           /\ Len(Val(frameViewer).frames) = 3
           /\ ShownFrameIds(Val(frameViewer))
                = NeighbourFrameIds(Val(trajectoryData), i)

\* a label file is processed to its end in this step: the call returns from
\* LabelFileFound without an await, or its last await returns
LabelLoadFinishes ==
    \/ /\ labelBatches' = labelBatches
       /\ Len(input.labels) > 0
       /\ trajectoryData # None
       /\ Len(Val(trajectoryData)) > 0
       /\ LabelFileFound
    \/ /\ Len(labelBatches') < Len(labelBatches)
       /\ LabelAwaitReturned

\* the index a build from scratch gives for the poses and the best-view set
IndexBuiltFor(poses, best, mapping, bodies, lenses) ==
    /\ {mapping[h] : h \in DOMAIN mapping}
         = {t \in 0..(Len(poses) - 1) : t % 2 = 0 \/ poses[t + 1].index \in best}
    /\ \A h1, h2 \in DOMAIN mapping : h1 < h2 => mapping[h1] < mapping[h2]
    /\ DOMAIN bodies = DOMAIN mapping
    /\ lenses = bodies
    /\ \A h \in DOMAIN mapping :
           bodies[h] = [cameraIndex |-> h - 1,
                        trajectoryIndex |-> mapping[h],
                        color |-> IF poses[mapping[h] + 1].index \in best
                                  THEN "ffff00" ELSE "4a64d2"]

\* C11: the step in which a label file has been processed to its end leaves,
\* for the trajectory then loaded, the whole camera index - displayed set,
\* handle -> trajectory index map, meshes and their best-view colour - equal
\* to the index built from scratch for that trajectory and the new best-view
\* set; no mesh keeps the selection colour of the previous index.
C11_LabelLoadRebuildsIndex ==
    [][(LabelLoadFinishes /\ trajectoryData' # None)
         => /\ cameraFrustums'
            /\ bestViewFrameIds' = BestViewIds(input.labels)
            /\ IndexBuiltFor(Val(trajectoryData'), bestViewFrameIds',
                             renderPosesMapping', cameraBodyInstances',
                             cameraLensInstances')]_vars

\* a finished label load whose best-view frame belongs to a pose of odd
\* trajectory index: the pose is displayed and its mesh is yellow
C11_Witness ==
    /\ labelsReport # None
    /\ labelsLoading = 0
    /\ cameraFrustums
    /\ bestViewFrameIds # {}
    /\ \E h \in DOMAIN cameraBodyInstances :
           /\ cameraBodyInstances[h].trajectoryIndex % 2 = 1
           /\ cameraBodyInstances[h].color = BEST_VIEW_CAMERA_COLOR
           /\ Val(trajectoryData)[cameraBodyInstances[h].trajectoryIndex + 1].index
                  \in bestViewFrameIds

-----------------------------------------------------------------------------
(* SpecBatch: a label file is localized object by object against a scene    *)
(* whose frame ids are no trajectory indices                                *)

MaxLabels == 2

BatchCloud == <<<<0, 0, 0>>, <<4, 4, 4>>>>

\* the frame ids of the poses at the trajectory indices 0, 1, 2, 3, 4
BatchFrameIds == <<2, 0, 1, 4, 3>>

\* the cameras of the frames 2, 1, 4 and 3 stand next to the cloud, that of
\* frame 0 stands at (2,2,9), too far from it; all look along -z
BatchTranslations ==
    <<<<2, 2, 4>>, <<2, 2, 9>>, <<2, 3, 4>>, <<2, 2, 5>>, <<3, 2, 4>>>>

BatchFile ==
    TrajectoryJson("scan_b", BatchFrameIds,
                   [k \in 1..5 |-> PoseArrayOf(IdentityBlock, BatchTranslations[k])])

\* bbox centred at the principal point (0,0), bbox right of the image
CentreBbox == <<0, 0, 0, 0>>
OutsideBbox == <<1900, 0, 100, 0>>

\* 2000 mm in every pixel, principal point (0,0)
BatchDepth == Some(DepthImage(<<7, 208>>, <<7, 208>>))
BatchFrame == Some([intrinsics |-> <<500, 0, 0, 0, 500, 0, 0, 0, 1>>])

\* the scan folder lacks the depth image of frame 1 and the frame JSON of
\* frame 4
BatchDepths == [f \in 0..4 |-> IF f = 1 THEN None ELSE BatchDepth]
BatchFrames == [f \in 0..4 |-> IF f = 4 THEN None ELSE BatchFrame]

\* objects that are localized (frames 2 and 3) and an object without best view
BatchObjects ==
    {LabelObject(2, CentreBbox), LabelObject(3, CentreBbox), NoBestView}

\* objects that fail otherwise: frame 5 has no pose, no depth image (frame
\* 1), no intrinsics (frame 4), bbox outside the depth frame, position out
\* of bounds (frame 0)
FailingObjects ==
    {LabelObject(5, CentreBbox), LabelObject(1, CentreBbox),
     LabelObject(4, CentreBbox), LabelObject(2, OutsideBbox),
     LabelObject(0, CentreBbox)}

\* every list of up to MaxLabels of the first objects, every failing object
\* alone and before a localizable one, and two lists of failures only
BatchLabelLists ==
    SeqsUpTo(BatchObjects, MaxLabels)
    \cup {<<o>> : o \in FailingObjects}
    \cup {<<o, LabelObject(3, CentreBbox)>> : o \in FailingObjects}
    \cup {<<NoBestView, LabelObject(1, CentreBbox), LabelObject(5, CentreBbox),
            LabelObject(2, CentreBbox)>>,
          <<LabelObject(0, CentreBbox), LabelObject(4, CentreBbox)>>}

InitBatch ==
    /\ input \in [cloud : {BatchCloud}, trajectory : {Some(BatchFile)},
                  labels : BatchLabelLists,
                  depths : {BatchDepths}, frames : {BatchFrames}]
    /\ output = None
    /\ InitProgram

NextBatch ==
    \/ ScenePLYLoaded
    \/ TrajectoryFileChosen
    \/ TrajectoryFileRead
    \/ LabelFileFound
    \/ LabelAwaitReturned
    \/ CameraClicked

SpecBatch == InitBatch /\ [][NextBatch]_vars

\* the pose records of the trajectory file and the frame id of the record at
\* a trajectory index (every record of the file is valid)
FileRecords == Val(input.trajectory).poses
FileFrameId(t) == FileRecords[t + 1].frame_index

\* where the file puts the camera of frame f, normalized as the cloud is
FileCameraOf(f) ==
    LET rec == FileRecords[CHOOSE k \in DOMAIN FileRecords : FileRecords[k].frame_index = f]
        c == Val(pointCloudTransform).center
        sc == Val(pointCloudTransform).scale
    IN  [k \in 1..3 |-> RMul(RSub(R(rec.cameraPoseARFrame[4 * k]), c[k]), sc)]

CalculatedLabels ==
    IF labelData = None THEN <<>>
    ELSE SelectSeq(Val(labelData).labeled_objects,
                   LAMBDA e : e.label_3d.calculated_in_webapp)

\* every localized label was localized with the pose of its best-view frame
\* id: it stores the position of that frame's camera and lies 2 m in front of
\* it; every suspended call waits with the pose of the awaited frame id
LocalizedWithPoseOfFrame ==
    /\ \A n \in DOMAIN CalculatedLabels :
           LET e == CalculatedLabels[n]
               f == Val(e.object.best_view).frame_id
           IN  /\ \E k \in DOMAIN FileRecords : FileRecords[k].frame_index = f
               /\ e.label_3d.frame_id = Some(f)
               /\ e.label_3d.camera_position = Some(FileCameraOf(f))
               /\ e.label_3d.position
                    = Some(VAdd(FileCameraOf(f),
                                VScale(<<R(0), R(0), R(-2)>>,
                                       Val(pointCloudTransform).scale)))
    /\ \A c \in DOMAIN labelBatches :
           labelBatches[c].cameraPose.index
               = Val(labelBatches[c].objects[labelBatches[c].next].best_view).frame_id

\* a mesh is yellow only if the frame id of its pose is a best-view frame id,
\* and, once no label batch is in flight, every mesh of such a pose is yellow
\* unless it is the selected one
MarkedByFrameId ==
    \A h \in DOMAIN cameraBodyInstances :
        LET mesh == cameraBodyInstances[h]
            best == FileFrameId(mesh.trajectoryIndex) \in bestViewFrameIds
        IN  /\ mesh.color = "ffff00" => best
            /\ (best /\ labelsLoading = 0) => mesh.color \in {"ffff00", "00ffff"}

\* the frames shown for the selected camera carry the frame ids of the file
ShownFramesNamedByFrameId ==
    LET i == renderPosesMapping[selectedCameraIndex + 1]
        frames == Val(frameViewer).frames
    IN  /\ \E k \in DOMAIN frames : frames[k].label = "Selected"
        /\ \A k \in DOMAIN frames :
               frames[k].frameNumber
                   = FileFrameId(CASE frames[k].label = "Previous" -> i - 1
                                   [] frames[k].label = "Selected" -> i
                                   [] frames[k].label = "Next" -> i + 1)

\* C17: with frame ids that differ from the trajectory indices, every label
\* is localized with the pose whose frame id is its best-view frame id (and
\* not localized when no pose has it), a camera is marked as best view by the
\* frame id of its pose, and a click shows frames named by the frame ids
\* stored in the poses.
C17_FrameIdsNeverArrayIndices ==
    /\ [](LocalizedWithPoseOfFrame /\ MarkedByFrameId)
    /\ [][(/\ selectedCameraIndex' >= 0
           /\ <<selectedCameraIndex, frameViewer>>' # <<selectedCameraIndex, frameViewer>>)
              => ShownFramesNamedByFrameId']_vars

\* the label of frame 3 localized with the pose at trajectory index 4, the
\* mesh of that pose yellow, and the camera of trajectory index 2 selected
\* with its frames 0, 1, 4 shown
C17_Witness ==
    /\ labelsLoading = 0
    /\ \E n \in DOMAIN CalculatedLabels :
           /\ CalculatedLabels[n].label_3d.frame_id = Some(3)
           /\ CalculatedLabels[n].label_3d.camera_position = Some(<<R(1), R(0), R(2)>>)
    /\ \E h \in DOMAIN cameraBodyInstances :
           /\ cameraBodyInstances[h].trajectoryIndex = 4
           /\ cameraBodyInstances[h].color = BEST_VIEW_CAMERA_COLOR
    /\ selectedCameraIndex >= 0
    /\ renderPosesMapping[selectedCameraIndex + 1] = 2
    /\ frameViewer # None
    /\ ShownFrameIds(Val(frameViewer)) = <<0, 1, 4>>

\* the labelled objects of the file that fail: without best view, of a frame
\* without pose, without depth image or intrinsics, with a bbox outside the
\* depth frame, with a position out of bounds
FailsToLocalize(obj) == obj = NoBestView \/ obj \in FailingObjects

\* C20: no failed label ends the batch early.  A call suspended at an object
\* has counted every object before it as localized or failed, and when the
\* file has been processed to its end with a trajectory loaded the two counts
\* add up to the number of labelled objects of the file.
C20_FailureNeverAbortsBatch ==
    /\ [](\A c \in DOMAIN labelBatches :
              labelBatches[c].successCount + labelBatches[c].failCount
                  = labelBatches[c].next - 1)
    /\ [][(LabelLoadFinishes /\ trajectoryData' # None)
            => /\ labelsReport' # None
               /\ Val(labelsReport').successCount + Val(labelsReport').failCount
                    = Len(input.labels)]_vars

\* three failures of different kinds (no best view, no depth image, no pose)
\* followed by an object that was localized and stored
C20_Witness ==
    /\ Len(input.labels) = 4
    /\ \A n \in 1..3 : FailsToLocalize(input.labels[n])
    /\ labelsLoading = 0
    /\ labelsReport = Some([successCount |-> 1, failCount |-> 3, result |-> TRUE])
    /\ Len(CalculatedLabels) = 1
    /\ CalculatedLabels[1].object = input.labels[4]

\* a call of loadLabelsDataWithWebappCalculation that no other handler
\* interleaves with, run to its return
RECURSIVE LabelBatchToEnd(_, _, _)
LabelBatchToEnd(g, depths, frames) ==
    IF Len(g.labelBatches) = 0 THEN g
    ELSE LET call == g.labelBatches[1]
             frameId == Val(call.objects[call.next].best_view).frame_id
         IN  LabelBatchToEnd(ResumeLabelBatch(g, 1, depths[frameId], frames[frameId]),
                             depths, frames)

\* what the caller of the batch has in hand once the call returned for a label
\* file: the returned boolean and the labelData the call left behind (whose
\* length tryAutoLoadLabels logs)
ReceivedFor(objects) ==
    LET g == LabelBatchToEnd(
                 BeginLabelBatch([Globals EXCEPT !.labelsReport = None], objects),
                 input.depths, input.frames)
    IN  [result |-> g.labelsReport # None /\ Val(g.labelsReport).result,
         labelData |-> g.labelData]

\* why an object of a label file is not placed ("none" if it is placed)
RejectionReason(obj) ==
    IF obj.best_view = None THEN "no best view"
    ELSE IF ~HasPose(Val(trajectoryData), Val(obj.best_view).frame_id)
         THEN "no camera pose"
    ELSE calculate3DPositionFromBestView(
             Globals, Val(obj.best_view).bbox,
             FindPose(Val(trajectoryData), Val(obj.best_view).frame_id),
             input.depths[Val(obj.best_view).frame_id],
             input.frames[Val(obj.best_view).frame_id]).warning

RejectionReasons(objects) ==
    [n \in 1..Len(objects) |-> RejectionReason(objects[n])]

\* C21: when a label batch over M labelled objects completes, successCount +
\* failCount = M, successCount is the number of labels stored with a position
\* in labelData, and the caller receives the counts of placed and rejected
\* labels with the reasons of the rejections: two label files of M objects for
\* which the caller is handed the same were rejected for the same reasons.
C21_CallerReceivesCountsAndReasons ==
    /\ [][(LabelLoadFinishes /\ trajectoryData' # None)
            => /\ labelsReport' # None
               /\ Val(labelsReport').successCount + Val(labelsReport').failCount
                    = Len(input.labels)
               /\ labelData' # None
               /\ Val(labelsReport').successCount
                    = Len(Val(labelData').labeled_objects)]_vars
    /\ [](/\ trajectoryData # None
          /\ labelsLoading = 0
          /\ trajectoryLoading = 0
          => \A other \in BatchLabelLists :
                 (/\ Len(other) = Len(input.labels)
                  /\ ReceivedFor(other) = ReceivedFor(input.labels))
                     => RejectionReasons(other) = RejectionReasons(input.labels))

-----------------------------------------------------------------------------
(* SpecUnproject: one pixel is unprojected at two depths with the same      *)
(* intrinsics and the same camera-to-world matrix                           *)

UnprojectPixels == {<<R(0), R(0)>>, <<R(960), R(720)>>, <<R(100), R(1300)>>}

\* fx, fy, cx, cy; the last has no focal length along x
UnprojectIntrinsics ==
    {[fx |-> R(500), fy |-> R(500), cx |-> R(0), cy |-> R(0)],
     [fx |-> R(1500), fy |-> R(1500), cx |-> R(960), cy |-> R(720)],
     [fx |-> R(0), fy |-> R(500), cx |-> R(0), cy |-> R(0)]}

\* the blocks of the localized scenes, a shear and a block of rank 2
UnprojectBlocks ==
    LocalizeBlocks \cup {<<<<1, 1, 0>>, <<0, 1, 0>>, <<0, 0, 1>>>>,
                         <<<<1, 0, 0>>, <<0, 1, 0>>, <<0, 0, 0>>>>}

UnprojectMatrices ==
    {Compose4(b, t, <<0, 0, 0>>) : b \in UnprojectBlocks, t \in {<<2, 2, 4>>, <<0, 0, 0>>}}

\* depths in metres, among them depths no depth image yields
UnprojectDepths == {R(-2), R(-1), R(0), <<1, 2>>, R(1), R(2), R(10)}

InitUnproject ==
    /\ input \in {i \in [pixel : UnprojectPixels, intrinsics : UnprojectIntrinsics,
                         cameraToWorld : UnprojectMatrices,
                         d1 : UnprojectDepths, d2 : UnprojectDepths] :
                      RLt(i.d1, i.d2)}
    /\ output = [near |-> None, far |-> None]
    /\ InitProgram

UnprojectedAt(depth) ==
    unprojectTo3D(input.pixel[1], input.pixel[2], depth, input.intrinsics,
                  input.cameraToWorld)

UnprojectNear ==
    /\ output.near = None
    /\ output' = [output EXCEPT !.near = Some(UnprojectedAt(input.d1))]
    /\ UNCHANGED <<input, programVars>>

UnprojectFar ==
    /\ output.far = None
    /\ output' = [output EXCEPT !.far = Some(UnprojectedAt(input.d2))]
    /\ UNCHANGED <<input, programVars>>

NextUnproject == UnprojectNear \/ UnprojectFar

SpecUnproject == InitUnproject /\ [][NextUnproject]_vars

\* squared distance from the camera position, the translation of the
\* camera-to-world matrix, to a world point
DistanceSqFromCamera(point) ==
    VLenSq(VSub(point, MatrixPosition(input.cameraToWorld)))

FartherAtLargerDepth ==
    RLt(DistanceSqFromCamera(Val(output.near)), DistanceSqFromCamera(Val(output.far)))

\* the statement for every pair of depths d1 < d2, every intrinsics and every
\* matrix
C22_MonotonicForAnyDepthAndCamera ==
    (output.near # None /\ output.far # None) => FartherAtLargerDepth

\* C22: unprojection is depth-monotonic: for a fixed pixel, intrinsics with
\* non-zero focal lengths and a camera-to-world matrix whose 3x3 block is
\* invertible, 0 <= d1 < d2 implies that unprojectTo3D(pixel, d1) is strictly
\* nearer to the camera position than unprojectTo3D(pixel, d2).
C22_DepthMonotonic ==
    (/\ output.near # None
     /\ output.far # None
     /\ RLe(R(0), input.d1)
     /\ input.intrinsics.fx # R(0)
     /\ input.intrinsics.fy # R(0)
     /\ Det3(MatrixRotation(input.cameraToWorld)) # 0)
        => FartherAtLargerDepth

\* the pixel (100, 1300) seen by the camera turned about x at (2,2,4), at
\* 0.5 m and at 2 m: (2 - 43/150, 2 - 29/150, 4.5) and four times as far
C22_Witness ==
    /\ input.pixel = <<R(100), R(1300)>>
    /\ input.intrinsics.fx = R(1500)
    /\ input.cameraToWorld = Compose4(<<<<1, 0, 0>>, <<0, -1, 0>>, <<0, 0, -1>>>>,
                                      <<2, 2, 4>>, <<0, 0, 0>>)
    /\ input.d1 = <<1, 2>>
    /\ input.d2 = R(2)
    /\ output.near = Some(<<<<257, 150>>, <<271, 150>>, <<9, 2>>>>)
    /\ output.far # None
    /\ DistanceSqFromCamera(Val(output.far))
         = RMul(R(16), DistanceSqFromCamera(Val(output.near)))

-----------------------------------------------------------------------------
(* Trajectory loads before and after the first point cloud (SpecAlign)      *)

\* nothing of a trajectory is in place
NoTrajectoryInPlace ==
    /\ trajectoryData = None
    /\ scanFolderPath = None
    /\ ~trajectoryTube
    /\ ~cameraFrustums
    /\ cameraBodyInstances = <<>>
    /\ cameraLensInstances = <<>>
    /\ renderPosesMapping = <<>>
    /\ selectedCameraIndex = -1

\* C24: while no point cloud has been loaded, a call of
\* loadAndProcessTrajectory returns false at once, no call waits for its file
\* and trajectoryData, the camera index, the selection and the scan-folder
\* path stay as they were (unset); trajectoryData is only ever set after a
\* point cloud has been normalized.
C24_NoTrajectoryWithoutCloud ==
    /\ [](pointCloudTransform = None
            => /\ trajectoryLoading = 0
               /\ NoTrajectoryInPlace
               /\ trajectoryResult \in {None, Some("false")})
    /\ [](trajectoryData # None => pointCloudTransform # None)
    /\ [][(pointCloudTransform = None /\ TrajectoryFileChosen)
            => /\ trajectoryResult' = Some("false")
               /\ UNCHANGED <<pointCloudTransform, trajectoryData, scanFolderPath,
                              trajectoryTube, cameraFrustums, cameraBodyInstances,
                              cameraLensInstances, renderPosesMapping,
                              selectedCameraIndex, trajectoryLoading>>]_vars

\* a trajectory file with poses was chosen before the point cloud: the call
\* returned false and nothing was loaded
C24_Witness ==
    /\ pointCloudTransform = None
    /\ input.trajectory # None
    /\ Len(ParsePoses(Val(input.trajectory).poses)) > 0
    /\ trajectoryResult = Some("false")
    /\ NoTrajectoryInPlace

-----------------------------------------------------------------------------
(* The selection across a rebuild of the camera index (SpecIndex)           *)

\* C28: the selection survives index rebuilds consistently: after the camera
\* index is rebuilt because the best-view set changed, selectedCameraIndex is
\* either -1 or a handle below the number of displayed cameras that still
\* resolves through renderPosesMapping to the trajectory index it resolved to
\* before the rebuild.
C28_SelectionSurvivesRebuild ==
    [][(/\ LabelLoadFinishes
        /\ trajectoryData' # None
        /\ renderPosesMapping' # renderPosesMapping)
          => \/ selectedCameraIndex' = -1
             \/ /\ selectedCameraIndex' < Len(cameraBodyInstances')
                /\ selectedCameraIndex >= 0
                /\ renderPosesMapping'[selectedCameraIndex' + 1]
                     = renderPosesMapping[selectedCameraIndex + 1]]_vars

-----------------------------------------------------------------------------
(* SpecReload: point clouds are loaded again and again, and trajectory      *)
(* files of different lengths are loaded while other loads are pending      *)

MaxLoads == 2

\* a cloud normalized with centre (2,2,2) and scale 1, one with centre
\* (1,1,1) and scale 2
ReloadClouds == {<<<<0, 0, 0>>, <<4, 4, 4>>>>, <<<<0, 0, 0>>, <<2, 2, 2>>>>}

\* three poses, one pose, a file whose only record has no pose array, and a
\* file that is no JSON
ReloadFiles ==
    {Some(TrajectoryJson("scan_l", <<0, 1, 2>>,
                         [k \in 1..3 |-> PoseArrayOf(IdentityBlock, <<k, 2, 2>>)])),
     Some(TrajectoryJson("scan_s", <<0>>, <<PoseArrayOf(IdentityBlock, <<3, 3, 3>>)>>)),
     Some(TrajectoryJson("scan_e", <<0>>, <<<<>>>>)),
     None}

\* output holds, for every loadAndProcessTrajectory call that waits for its
\* file, what was loaded when the call was made
InitReload ==
    /\ input = [clouds |-> ReloadClouds, files |-> ReloadFiles]
    /\ output = <<>>
    /\ InitProgram

LoadedTrajectory ==
    [trajectoryData |-> trajectoryData,
     scanFolderPath |-> scanFolderPath,
     cameraFrustums |-> cameraFrustums,
     cameraBodyInstances |-> cameraBodyInstances,
     renderPosesMapping |-> renderPosesMapping,
     selectedCameraIndex |-> selectedCameraIndex]

\* a PLY file is dropped or chosen
PLYFileChosen ==
    /\ plyLoading < MaxInFlight
    /\ Handle(BeginLoadPLY(Globals))

\* the FileReader of a pending loadPLYFile fires onload
PLYFileRead ==
    /\ plyLoading > 0
    /\ \E points \in input.clouds : Handle(FinishLoadPLY(Globals, points))

\* a trajectory file is chosen by the user or found by tryAutoLoadTrajectory
ReloadTrajectoryChosen ==
    /\ trajectoryLoading < MaxLoads
    /\ Become(BeginLoadTrajectory(Globals))
    /\ output' = IF pointCloudTransform = None THEN output
                 ELSE Append(output, LoadedTrajectory)
    /\ UNCHANGED input

\* the file of the k-th waiting call has been read
ReloadTrajectoryRead ==
    \E k \in 1..Len(output) :
        \E file \in input.files :
            /\ Become(FinishLoadTrajectory(Globals, file))
            /\ output' = SubSeq(output, 1, k - 1) \o SubSeq(output, k + 1, Len(output))
            /\ UNCHANGED input

NextReload ==
    \/ PLYFileChosen
    \/ PLYFileRead
    \/ ReloadTrajectoryChosen
    \/ ReloadTrajectoryRead
    \/ CameraClicked

SpecReload == InitReload /\ [][NextReload]_vars


\* the poses a trajectory file yields under the transform of the cloud that
\* is loaded now
AlignedToCurrentCloud(file) ==
    transformTrajectoryData(ParsePoses(Val(file).poses),
                            Val(pointCloudTransform).center,
                            Val(pointCloudTransform).scale)

\* C26: whenever trajectoryData is set and its cameras are displayed, its
\* positions are those of the raw poses of a trajectory file under the
\* pointCloudTransform that is active now: loading a new point cloud
\* invalidates or re-derives the trajectory loaded before, also when no
\* trajectory file is found for the new cloud.
C26_TrajectoryAlignedToActiveCloud ==
    (trajectoryData # None /\ cameraFrustums /\ trajectoryVisible)
        => \E file \in input.files \ {None} :
               trajectoryData = Some(AlignedToCurrentCloud(file))

\* C27: under any interleaving of trajectory loads and point-cloud loads,
\* whenever camera meshes exist the camera index belongs to the current
\* trajectory: the two mesh arrays and renderPosesMapping have equal length
\* and every renderPosesMapping entry is an index into trajectoryData.
C27_IndexBelongsToCurrentTrajectory ==
    Len(cameraBodyInstances) > 0
        => /\ trajectoryData # None
           /\ Len(cameraLensInstances) = Len(cameraBodyInstances)
           /\ Len(renderPosesMapping) = Len(cameraBodyInstances)
           /\ \A h \in DOMAIN renderPosesMapping :
                  renderPosesMapping[h] \in 0..(Len(Val(trajectoryData)) - 1)

\* C30: a failed trajectory load is atomic: when the file of a waiting call
\* cannot be parsed or holds no valid pose, the call returns false and
\* trajectoryData, the scan-folder path, the camera index and the selection
\* are those that were in place when the call was made.
C30_FailedLoadKeepsTrajectory ==
    [][\A k \in 1..Len(output) :
           (/\ trajectoryLoading' = trajectoryLoading - 1
            /\ output' = SubSeq(output, 1, k - 1) \o SubSeq(output, k + 1, Len(output))
            /\ trajectoryData' = trajectoryData)
              => /\ trajectoryResult' = Some("false")
                 /\ LoadedTrajectory' = output[k]]_vars

-----------------------------------------------------------------------------
(* SpecLabels: label files are localized and rendered while point clouds    *)
(* and the trajectory are loaded again and the labels checkbox is toggled   *)

\* centre (2,2,2) and scale 1, centre (4,4,4) and scale 1/2
LabelsClouds == {<<<<0, 0, 0>>, <<4, 4, 4>>>>, <<<<0, 0, 0>>, <<8, 8, 8>>>>}

\* the cameras of the frames 2 and 3 at (2,2,4) and (3,2,4), looking along -z
LabelsFile ==
    TrajectoryJson("scan_b", <<2, 3>>,
                   <<PoseArrayOf(IdentityBlock, <<2, 2, 4>>),
                     PoseArrayOf(IdentityBlock, <<3, 2, 4>>)>>)

\* a labelled object that brings a position computed by the Python pipeline
PythonLabelObject(frameId, bbox) ==
    [best_view |-> Some([frame_id |-> frameId, bbox |-> bbox]),
     label_3d |-> [position |-> <<R(9), R(9), R(9)>>]]

\* two objects that are localized, and an object without pose before one that
\* is localized
LabelsLists ==
    {<<PythonLabelObject(2, CentreBbox), LabelObject(3, CentreBbox)>>,
     <<LabelObject(5, CentreBbox), PythonLabelObject(3, CentreBbox)>>}

InitLabels ==
    /\ input \in [clouds : {LabelsClouds}, trajectory : {Some(LabelsFile)},
                  labels : LabelsLists,
                  depths : {[f \in 0..4 |-> BatchDepth]},
                  frames : {[f \in 0..4 |-> BatchFrame]}]
    /\ output = None
    /\ InitProgram

\* the change handler of the labels checkbox
LabelsToggled ==
    \E visible \in BOOLEAN : Handle(toggleSemanticLabels(Globals, visible))

NextLabels ==
    \/ PLYFileChosen
    \/ PLYFileRead
    \/ TrajectoryFileChosen
    \/ TrajectoryFileRead
    \/ LabelFileFound
    \/ LabelAwaitReturned
    \/ LabelsToggled

SpecLabels == InitLabels /\ [][NextLabels]_vars

-----------------------------------------------------------------------------
(* SpecScene: one point cloud, its trajectory and a label file are loaded   *)
(* while the user clicks cameras, closes the frame viewer and toggles the   *)
(* trajectory and the labels                                                *)

InitScene ==
    /\ input \in [cloud : {BatchCloud}, trajectory : {Some(LabelsFile)},
                  labels : LabelsLists,
                  depths : {[f \in 0..4 |-> BatchDepth]},
                  frames : {[f \in 0..4 |-> BatchFrame]}]
    /\ output = None
    /\ InitProgram

NextScene ==
    \/ ScenePLYLoaded
    \/ TrajectoryFileChosen
    \/ TrajectoryFileRead
    \/ TrajectoryToggled
    \/ LabelFileFound
    \/ LabelAwaitReturned
    \/ LabelsToggled
    \/ CameraClicked
    \/ ViewerClosed

SpecScene == InitScene /\ [][NextScene]_vars


\* the sprite shows a label of labelData that was calculated in the webapp
BelongsToCalculatedLabel(sprite) ==
    /\ labelData # None
    /\ \E n \in DOMAIN Val(labelData).labeled_objects :
           LET e == Val(labelData).labeled_objects[n]
           IN  /\ e.label_3d.calculated_in_webapp
               /\ e.label_3d.position = Some(sprite.position)
               /\ e.label_3d.camera_position # None

\* C25: no label is rendered unless its position was computed by the webapp
\* localizer against a loaded trajectory: after any sequence of label loads
\* and label-toggle events every label sprite belongs to a labelData entry
\* with calculated_in_webapp = true, and a label file processed while no
\* trajectory is loaded returns false and leaves no sprite.
C25_OnlyCalculatedLabelsRendered ==
    /\ [](\A n \in DOMAIN labelSprites : BelongsToCalculatedLabel(labelSprites[n]))
    /\ [][(LabelFileFound /\ trajectoryData = None)
            => /\ labelsResult' = Some(FALSE)
               /\ labelSprites' = <<>>]_vars
    /\ []((labelData # None /\ \A n \in DOMAIN Val(labelData).labeled_objects :
                                  ~Val(labelData).labeled_objects[n].label_3d.calculated_in_webapp)
            => labelSprites = <<>>)

\* the labels checkbox is on after a label file was processed without a
\* trajectory: the label that brought a Python position is kept in labelData
\* and not rendered
C25_FallbackNotRendered ==
    /\ labelsVisible
    /\ labelsResult = Some(FALSE)
    /\ labelData # None
    /\ \E n \in DOMAIN Val(labelData).labeled_objects :
           /\ Val(labelData).labeled_objects[n].label_3d.position
                = Some(<<R(9), R(9), R(9)>>)
           /\ ~Val(labelData).labeled_objects[n].label_3d.calculated_in_webapp
    /\ labelSprites = <<>>
    /\ trajectoryData # None

\* both labels of a file were localized and are shown as sprites
C25_Witness ==
    /\ labelsVisible
    /\ labelsResult = Some(TRUE)
    /\ Len(labelSprites) = 2
    /\ \A n \in DOMAIN labelSprites : labelSprites[n].visible
    /\ labelSprites[1].position = <<R(0), R(0), R(0)>>
    /\ labelSprites[2].position = <<R(1), R(0), R(0)>>
    /\ Len(CalculatedLabels) = 2


\* C23: the normalization transform and the aligned poses are write-once:
\* localizing labels, building or rebuilding the camera index, showing or
\* hiding trajectory and labels, and the click and close events of the
\* cameras change neither pointCloudTransform (center, scale, bounds) nor
\* the frame id, position, quaternion or matrix of any pose of
\* trajectoryData; only a point-cloud load replaces the transform and only a
\* trajectory load replaces the poses.
C23_TransformAndPosesWriteOnce ==
    /\ [][(\/ LabelFileFound
           \/ LabelAwaitReturned
           \/ LabelsToggled
           \/ TrajectoryToggled
           \/ CameraClicked
           \/ ViewerClosed)
            => UNCHANGED <<pointCloudTransform, trajectoryData>>]_vars
    /\ [][pointCloudTransform' # pointCloudTransform => ScenePLYLoaded]_vars
    /\ [][trajectoryData' # trajectoryData
            => (TrajectoryFileChosen \/ TrajectoryFileRead)]_vars
    /\ [](trajectoryData # None
            => trajectoryData = Some(AlignedToCurrentCloud(input.trajectory)))

\* both labels of the file were localized, the index was rebuilt with the two
\* best-view cameras, the second camera was clicked and its viewer closed
\* again, and the transform and the poses are those of the two loads
C23_Witness ==
    /\ pointCloudTransform = Some(NormalizeCloud(input.cloud))
    /\ trajectoryData = Some(AlignedToCurrentCloud(input.trajectory))
    /\ labelsResult = Some(TRUE)
    /\ Len(CalculatedLabels) = 2
    /\ renderPosesMapping = <<0, 1>>
    /\ bestViewFrameIds = {2, 3}
    /\ frameViewer # None
    /\ Val(frameViewer).hidden
    /\ Val(frameViewer).frames[Len(Val(frameViewer).frames)].frameNumber = 3
    /\ selectedCameraIndex = -1
    /\ Len(labelSprites) = 2


-----------------------------------------------------------------------------
(* C29: a label batch interleaved with point-cloud and trajectory loads     *)

\* the stored entry is what calculate3DPositionFromBestView gives for its
\* object with the transform and the trajectory of g
LocalizedWith(g, entry, depths, frames) ==
    LET frameId == Val(entry.label_3d.frame_id)
    IN  /\ g.trajectoryData # None
        /\ HasPose(Val(g.trajectoryData), frameId)
        /\ LET cameraPose == FindPose(Val(g.trajectoryData), frameId)
           IN  /\ entry.label_3d.camera_position = Some(cameraPose.position)
               /\ entry.label_3d.position =
                      calculate3DPositionFromBestView(
                          g, Val(entry.object.best_view).bbox, cameraPose,
                          depths[frameId], frames[frameId]).position

\* C29: label batches do not interfere through shared state.  Whatever
\* point-cloud load, trajectory load or other label load is interleaved with
\* a running batch, the step that ends the batch leaves a labelData whose
\* every entry was localized with the transform and the trajectory current
\* at that step, the batch has accounted for every one of its objects
\* (successCount + failCount is the number of objects, and the stored
\* entries are the successCount localized ones), and labelData never holds
\* more entries than one label file has objects.
C29_LabelBatchesDoNotInterfere ==
    /\ [](labelData # None
            => Len(Val(labelData).labeled_objects) <= Len(input.labels))
    /\ [][Len(labelBatches') < Len(labelBatches)
            => /\ labelsReport' # None
               /\ Val(labelsReport').successCount + Val(labelsReport').failCount
                      = Len(input.labels)
               /\ labelsResult' = Some(Val(labelsReport').result)
               /\ labelData' # None
               /\ Len(Val(labelData').labeled_objects)
                      = Val(labelsReport').successCount
               /\ \A n \in DOMAIN Val(labelData').labeled_objects :
                      LocalizedWith(Globals', Val(labelData').labeled_objects[n],
                                    input.depths, input.frames)]_vars

=============================================================================
